---------------------------- MODULE Spec2Model ----------------------------
(***************************************************************************)
(* Hookup resolution of hera_mc: the traversal of cm_hookup.Hookup over    *)
(* the time-versioned connection records, the topology tables of           *)
(* cm_sysdef, and the timing / fully-connected bookkeeping of cm_hookup    *)
(* and cm_dossier.HookupEntry.                                             *)
(*                                                                         *)
(* Encoding.  Python None is the number -1 (GPS times are never negative). *)
(* An astropy Time is represented by its GPS second, so Connections.       *)
(* gps2Time keeps the number and comparisons of dates are comparisons of   *)
(* numbers.  Strings are Python strings; s[:n], s[0] and s[-1] are the     *)
(* operators prefix, first_char and last_char.                             *)
(*                                                                         *)
(* Nine specifications.  Spec is a query of cm_hookup.Hookup as            *)
(* cm_hookup.py runs it: __get_next_connection chooses by                  *)
(* __check_next_port and does not call cm_sysdef.  SysdefSpec is the       *)
(* calls of cm_sysdef.find_hookup_type, setup and next_connection on the   *)
(* globals this_hookup_type and pind.  RepeatSpec is one Hookup object     *)
(* asked several times over the same records.  CacheSpec is get_hookup     *)
(* answered through cached_hookup_dict and the cache file, by Hookup       *)
(* objects made one after the other, with updates of the tables between.   *)
(* FileSpec is the writing and reading of the cache file by processes that *)
(* do not lock it.  SharingSpec is two queries that use the globals of     *)
(* cm_sysdef in turn.  RevisionSpec is the calls of cm_revisions and       *)
(* cm_health on the revisions of one part.  ObjectsSpec is two Hookup      *)
(* objects alive at once over one cache file.  EntrySpec is the calls of   *)
(* the methods of cm_dossier.HookupEntry on the entries of a query.        *)
(*                                                                         *)
(* Assumed of the inputs: part numbers follow the naming convention and    *)
(* port_query is 'all' or a polarization, so the polarization of a walk is *)
(* one of both_pols; a query returns rows in table order; the epochs of    *)
(* full_connection_path are tried in checking order.                       *)
(***************************************************************************)
EXTENDS Integers, Sequences, FiniteSets, TLC

None == 0 - 1

\* Largest number of rows of the connections table.
MaxConns == 4
\* Depth at which the interpreter stops the recursion of __recursive_go
\* (RecursionError); the walk of one leg is cut there.
MaxDepth == 6

---------------------------------------------------------------------------
\* Python string helpers

upper_char(c) ==
    CASE c = "a" -> "A" [] c = "b" -> "B" [] c = "c" -> "C" [] c = "d" -> "D"
      [] c = "e" -> "E" [] c = "m" -> "M" [] c = "n" -> "N" [] c = "p" -> "P"
      [] c = "r" -> "R" [] c = "i" -> "I" [] c = "o" -> "O"
      [] OTHER -> c

lower_char(c) ==
    CASE c = "A" -> "a" [] c = "B" -> "b" [] c = "C" -> "c" [] c = "D" -> "d"
      [] c = "E" -> "e" [] c = "M" -> "m" [] c = "N" -> "n" [] c = "P" -> "p"
      [] c = "R" -> "r" [] c = "I" -> "i" [] c = "O" -> "o"
      [] OTHER -> c

RECURSIVE upper(_)
upper(s) == IF s = "" THEN "" ELSE upper_char(SubSeq(s, 1, 1)) \o upper(SubSeq(s, 2, Len(s)))

RECURSIVE lower(_)
lower(s) == IF s = "" THEN "" ELSE lower_char(SubSeq(s, 1, 1)) \o lower(SubSeq(s, 2, Len(s)))

\* s[:n]
prefix(s, n) == SubSeq(s, 1, IF Len(s) < n THEN Len(s) ELSE n)
\* s[0]
first_char(s) == SubSeq(s, 1, 1)
\* s[-1]
last_char(s) == SubSeq(s, Len(s), Len(s))

\* list(reversed(seq))
reversed(seq) == [i \in 1..Len(seq) |-> seq[Len(seq) + 1 - i]]

\* x in list
In(x, seq) == \E i \in 1..Len(seq) : seq[i] = x

\* set(seq)
Elems(seq) == { seq[i] : i \in 1..Len(seq) }

---------------------------------------------------------------------------
\* cm_sysdef: the topology tables

PD(up, down, position) == [up |-> up, down |-> down, position |-> position]

port_def ==
    ( "parts_hera" :>
        ( "station" :> PD(<< <<"None">> >>, << <<"ground">> >>, 0) @@
            "antenna" :> PD(<< <<"ground">> >>, << <<"focus">> >>, 1) @@
            "feed" :> PD(<< <<"input">> >>, << <<"terminals">> >>, 2) @@
            "front-end" :> PD(<< <<"input">> >>, << <<"e">>, <<"n">> >>, 3) @@
            "cable-rfof" :> PD(<< <<"ea">>, <<"na">> >>, << <<"eb">>, <<"nb">> >>, 4) @@
            "post-amp" :> PD(<< <<"ea">>, <<"na">> >>, << <<"eb">>, <<"nb">> >>, 5) @@
            "snap" :> PD(<< <<"e2", "e6", "e10">>, <<"n0", "n4", "n8">> >>, << <<"rack">> >>, 6) @@
            "node" :> PD(<< <<"loc1", "loc2", "loc3", "loc4">> >>, << <<"None">> >>, 7) ) @@
        "parts_paper" :>
        ( "station" :> PD(<< <<"None">> >>, << <<"ground">> >>, 0) @@
            "antenna" :> PD(<< <<"ground">> >>, << <<"focus">> >>, 1) @@
            "feed" :> PD(<< <<"input">> >>, << <<"terminals">> >>, 2) @@
            "front-end" :> PD(<< <<"input">> >>, << <<"e">>, <<"n">> >>, 3) @@
            "cable-feed75" :> PD(<< <<"ea">>, <<"na">> >>, << <<"eb">>, <<"nb">> >>, 4) @@
            "cable-post-amp(in)" :> PD(<< <<"a">> >>, << <<"b">> >>, 5) @@
            "post-amp" :> PD(<< <<"ea">>, <<"na">> >>, << <<"eb">>, <<"nb">> >>, 6) @@
            "cable-post-amp(out)" :> PD(<< <<"a">> >>, << <<"b">> >>, 7) @@
            "cable-receiverator" :> PD(<< <<"a">> >>, << <<"b">> >>, 8) @@
            "cable-container" :> PD(<< <<"a">> >>, << <<"b">> >>, 9) @@
            "f-engine" :> PD(<< <<"input">> >>, << <<"None">> >>, 10) ) @@
        "parts_rfi" :>
        ( "station" :> PD(<< <<"None">> >>, << <<"ground">> >>, 0) @@
            "antenna" :> PD(<< <<"ground">> >>, << <<"focus">> >>, 1) @@
            "feed" :> PD(<< <<"input">> >>, << <<"terminals">> >>, 2) @@
            "temp-cable" :> PD(<< <<"ea">>, <<"na">> >>, << <<"eb">>, <<"nb">> >>, 3) @@
            "snap" :> PD(<< <<"e2", "e6", "e10">>, <<"n0", "n4", "n8">> >>, << <<"rack">> >>, 4) @@
            "node" :> PD(<< <<"loc1", "loc2", "loc3", "loc4">> >>, << <<"None">> >>, 5) ) @@
        "parts_test" :>
        ( "vapor" :> PD(<< <<"None">> >>, << <<"None">> >>, 0) ) )

\* Synthetic epochs for the scenarios: path [a, b, c] with
\* polarization-agnostic ports, and a path of length 4.
test_port_def ==
    ( "parts_abc" :>
        ( "a" :> PD(<< <<"None">> >>, << <<"out1">> >>, 0) @@
            "b" :> PD(<< <<"in1">> >>, << <<"out1">> >>, 1) @@
            "c" :> PD(<< <<"in1">> >>, << <<"None">> >>, 2) ) @@
        "parts_abcd" :>
        ( "a" :> PD(<< <<"None">> >>, << <<"out1">> >>, 0) @@
            "b" :> PD(<< <<"in1">> >>, << <<"e">>, <<"n">> >>, 1) @@
            "c" :> PD(<< <<"ea">>, <<"na">> >>, << <<"out1">> >>, 2) @@
            "d" :> PD(<< <<"in1">> >>, << <<"None">> >>, 3) ) )

\* The table the module works on: the repository's epochs and the synthetic ones.
all_port_def == port_def @@ test_port_def

checking_order == <<"parts_hera", "parts_rfi", "parts_paper", "parts_test">>
test_checking_order == checking_order \o <<"parts_abc", "parts_abcd">>

\* A path that closes with the type of position 0 again.
ordered_path_closed(x) ==
    LET pd == all_port_def[x]
        n == Cardinality(DOMAIN pd)
    IN  [p \in 1..n |-> CHOOSE k \in DOMAIN pd : pd[k].position = (IF p = n THEN 0 ELSE p - 1)]

\* full_connection_path[x]: the part types of epoch x sorted by position
ordered_path(x) ==
    LET pd == all_port_def[x]
        n == Cardinality(DOMAIN pd)
    IN  [p \in 1..n |-> CHOOSE k \in DOMAIN pd : pd[k].position = p - 1]

full_connection_path == [x \in DOMAIN all_port_def |-> ordered_path(x)]

---------------------------------------------------------------------------
\* The record source: parts and connections

\* A row of the connections table.
Connections(up, uprev, oport, dn, dnrev, iport, start, stop) ==
    [ upstream_part |-> up, up_part_rev |-> uprev, upstream_output_port |-> oport,
      downstream_part |-> dn, down_part_rev |-> dnrev, downstream_input_port |-> iport,
      start_gpstime |-> start, stop_gpstime |-> stop ]

\* Connections.gps2Time: start_date and stop_date as Time objects (None stays None)
gps2Time(conn) ==
    [ start_date |-> conn.start_gpstime,
      stop_date |-> IF conn.stop_gpstime = None THEN None ELSE conn.stop_gpstime ]

\* The parts table: part number -> part type, start and stop of the part.
parts_table ==
    ( "A1" :> [hptype |-> "A", start_date |-> 0, stop_date |-> None] @@
      "B1" :> [hptype |-> "B", start_date |-> 0, stop_date |-> None] @@
      "C1" :> [hptype |-> "C", start_date |-> 0, stop_date |-> 100] @@
      "C2" :> [hptype |-> "C", start_date |-> 0, stop_date |-> None] @@
      "C3N" :> [hptype |-> "C", start_date |-> 0, stop_date |-> None] @@
      "PAM1" :> [hptype |-> "C", start_date |-> 0, stop_date |-> None] @@
      "D1" :> [hptype |-> "D", start_date |-> 0, stop_date |-> None] @@
      "X1" :> [hptype |-> "X", start_date |-> 0, stop_date |-> None] )

\* The rows a connections table is drawn from, in table order.
conn_rows ==
    << Connections("A1", "A", "out1", "B1", "A", "in1", 0, 100),
       Connections("B1", "A", "out1", "C1", "A", "in1", 0, None),
       Connections("C1", "A", "out1", "D1", "A", "in1", 50, None),
       Connections("B1", "A", "e", "C1", "A", "ea", 0, None),
       Connections("B1", "A", "n", "C2", "A", "na", 0, None),
       Connections("B1", "A", "out2", "A1", "A", "in2", 0, None),
       Connections("B1", "A", "n", "PAM1", "A", "n", 0, None),
       Connections("B1", "A", "out1", "C3N", "A", "a", 0, None),
       Connections("A1", "B", "out1", "B1", "B", "in1", 0, None),
       Connections("X1", "A", "out1", "B1", "A", "in2", 0, None),
       Connections("C2", "A", "out1", "C1", "A", "in1", 0, None) >>

\* The as-of dates a Hookup is constructed with.
at_dates == {0, 50, 100, 101, 1000}

\* The part lists and port queries handed to a query.
hpn_lists == { <<"A1">>, <<"A1", "B1">>, <<"C1">>, <<"A1", "X1">> }
port_queries == {"all", "e"}

\* The rows of conn_rows picked by the index set S, in table order.
RECURSIVE rows_of(_, _)
rows_of(S, i) ==
    IF i > Len(conn_rows) THEN << >>
    ELSE (IF i \in S THEN << conn_rows[i] >> ELSE << >>) \o rows_of(S, i + 1)

\* cm_utils._is_active
_is_active(at, start_date, stop_date) ==
    /\ start_date <= at
    /\ (stop_date = None \/ stop_date >= at)

\* Handling.get_part_type_for
get_part_type_for(hpn) == parts_table[hpn].hptype

\* Handling.get_part_dossier(hpn_list, rev='ACTIVE', ..., full_version=False): the
\* dossier of the listed parts, keyed hpn:rev, here as a sequence in list order.
get_part_dossier(hpn_list) ==
    [ i \in 1..Len(hpn_list) |->
        [ key |-> hpn_list[i] \o ":A", hpn |-> hpn_list[i], hpn_rev |-> "A",
          start_date |-> parts_table[hpn_list[i]].start_date,
          stop_date |-> parts_table[hpn_list[i]].stop_date ] ]

\* part_connect.both_pols
both_pols == <<"e", "n">>

---------------------------------------------------------------------------
\* cm_hookup.Hookup

VARIABLES
    connections,       \* the rows of the connections table, in the order a query returns them
    at_date,           \* Hookup.at_date
    pc,                \* where the running query stands
    todo,              \* the (part, pol) pairs __get_hookup has still to follow
    key,               \* the (key, pol) being followed
    seed,              \* the (part, rev, pol) __follow_hookup_stream was called with
    current,           \* direction, part and rev of the running __recursive_go
    upstream,          \* Hookup.upstream
    downstream,        \* Hookup.downstream
    step,              \* the last call of __get_next_connection: its options and its result
    part_types_found,  \* __get_hookup's part_types_found
    hookup_dict,       \* the hookup_dict under construction / returned
    entries,           \* the cm_dossier.HookupEntry objects built of the chains, by part key
    this_hookup_type,  \* cm_sysdef.this_hookup_type ("" is None)
    pind,              \* cm_sysdef.pind
    sysdef_call,       \* the last call of cm_sysdef.setup or cm_sysdef.next_connection
    earlier,           \* the chains the earlier queries of this Hookup returned, by (key, pol)
    queries,           \* the number of queries this Hookup has answered
    cache_file,        \* Hookup.hookup_cache_file: whether it exists, its st_mtime, its content
    cached_hookup_dict,\* Hookup.cached_hookup_dict (NoDict is None)
    cm_hash_time,      \* the update_time of the last CMVersion row
    now,               \* the time of the last write or update
    written_under,     \* the cm_hash_time the cache file was written under (None: never written)
    get_hookup_call,   \* the last call of get_hookup: its arguments, what it saw, its result
    npy,               \* the cache file as the saved items it holds, one after the other
    handle,            \* the open file of each process that writes or reads the cache file
    query_of,          \* the queries that share the module cm_sysdef: what each set up and was returned
    part_revisions,    \* part_connect.get_part_revisions(hpn): the revisions of the part, in the order of the dict
    rev_call,          \* the last call of cm_revisions or cm_health: its arguments, its result
    running,           \* the Hookup object, of those that live side by side, whose call runs
    parked,            \* at_date and cached_hookup_dict of the other Hookup objects
    held_since,        \* the time the table the running object holds was computed (None: it holds none)
    entry_call         \* the last call of a method of a HookupEntry: its arguments, its result

hookup_vars == << connections, at_date, pc, todo, key, seed, current, upstream, downstream,
                  step, part_types_found, hookup_dict, entries >>
sysdef_vars == << this_hookup_type, pind, sysdef_call >>
repeat_vars == << earlier, queries >>
cache_vars == << cache_file, cached_hookup_dict, cm_hash_time, now, written_under, get_hookup_call >>
file_vars == << npy, handle >>
conc_vars == << query_of >>
rev_vars == << part_revisions, rev_call >>
object_vars == << running, parked, held_since >>
entry_vars == << entry_call >>
\* what the queries, the topology calls and the cache calls of one process leave alone
extra_vars == << file_vars, conc_vars, rev_vars, object_vars, entry_vars >>
\* what a step of a query leaves alone
beyond_query == << sysdef_vars, repeat_vars, cache_vars, extra_vars >>
\* what the accesses to the cache file leave alone
beyond_file == << hookup_vars, sysdef_vars, repeat_vars, cache_vars, conc_vars, rev_vars, object_vars, entry_vars >>
\* what the queries that share cm_sysdef leave alone
beyond_sysdef == << hookup_vars, repeat_vars, cache_vars, file_vars, rev_vars, object_vars, entry_vars >>
\* what the calls of cm_revisions and cm_health leave alone
beyond_revisions == << hookup_vars, sysdef_vars, repeat_vars, cache_vars, file_vars, conc_vars, object_vars, entry_vars >>
\* what the calls of the methods of a HookupEntry leave alone
beyond_entry == << hookup_vars, sysdef_vars, repeat_vars, cache_vars, file_vars, conc_vars, rev_vars, object_vars >>
vars == << hookup_vars, sysdef_vars, repeat_vars, cache_vars, extra_vars >>

NoConn == [none |-> TRUE]
\* None where a hookup_dict is expected
NoDict == [none |-> TRUE]
\* no cache file
NoFile == [exists |-> FALSE, st_mtime |-> None, at_date |-> None, hookup_list |-> << >>,
           hookup_dict |-> NoDict]
\* no call of get_hookup yet
NoSeen == [exists |-> FALSE, st_mtime |-> None, at_date |-> None, cm_hash_time |-> None,
           written_under |-> None, cached |-> FALSE]
NoGet == [at |-> "", hpn_list |-> << >>, exact_match |-> FALSE, show_levels |-> FALSE,
          force_new |-> FALSE, seen |-> NoSeen, recomputed |-> FALSE, wrote |-> FALSE,
          returned |-> NoDict, raised |-> ""]
NoStep == [direction |-> "", part |-> "", rev |-> "", pol |-> "", options |-> << >>, next_one |-> NoConn]

\* Hookup.__get_empty_hookup_dict (levels left out: it is filled by add_correlator_levels only)
__get_empty_hookup_dict ==
    [ hookup |-> << >>, fully_connected |-> << >>,
      parts_epoch |-> [epoch |-> "", path |-> << >>],
      columns |-> << >>, timing |-> << >> ]

\* Hookup.__get_pols_to_do, for a valid port_query ('all' or one of both_pols)
__get_pols_to_do(hpn, port_query) ==
    LET single_pol_parts_paper == {"RI", "RO", "CR"}
        q == lower(port_query)
    IN  IF q = "all"
        THEN IF upper(prefix(hpn, 2)) \in single_pol_parts_paper
             THEN << lower(last_char(hpn)) >>
             ELSE both_pols
        ELSE << q >>

\* A port check that holds a lone option to the polarization whatever part it leads to.
__check_next_port_lone_by_pol(next_part, option_port, pol, lenopt) ==
    LET p == IF lower(option_port) \in {"a", "b"} THEN lower(last_char(next_part))
             ELSE IF In(lower(first_char(option_port)), both_pols)
                  THEN lower(first_char(option_port))
                  ELSE pol
    IN  p = pol

\* Hookup.__check_next_port, for pol one of both_pols
__check_next_port(next_part, option_port, pol, lenopt) ==
    IF lenopt = 1
    THEN ~ (upper(prefix(next_part, 3)) = "PAM" /\ lower(first_char(option_port)) # lower(pol))
    ELSE LET p == IF lower(option_port) \in {"a", "b"} THEN lower(last_char(next_part))
                  ELSE IF In(lower(first_char(option_port)), both_pols)
                       THEN lower(first_char(option_port))
                       ELSE pol
         IN  p = pol

\* Query loops that take every row that has started, stopped or not.
connection_options_started(direction, part, rev) ==
    SelectSeq(connections,
        LAMBDA conn :
            /\ IF lower(direction) = "up"
               THEN upper(conn.downstream_part) = upper(part) /\ upper(conn.down_part_rev) = upper(rev)
               ELSE upper(conn.upstream_part) = upper(part) /\ upper(conn.up_part_rev) = upper(rev)
            /\ conn.start_gpstime <= at_date)

\* The query loops of __get_next_connection: the rows incident on (part, rev) on the
\* side the direction names and active at at_date, in the order the query returns them.
connection_options(direction, part, rev) ==
    SelectSeq(connections,
        LAMBDA conn :
            /\ IF lower(direction) = "up"
               THEN upper(conn.downstream_part) = upper(part) /\ upper(conn.down_part_rev) = upper(rev)
               ELSE upper(conn.upstream_part) = upper(part) /\ upper(conn.up_part_rev) = upper(rev)
            /\ _is_active(at_date, gps2Time(conn).start_date, gps2Time(conn).stop_date))

\* The port check __get_next_connection makes of an option.
option_passes(direction, opc, pol, lenopt) ==
    IF lower(direction) = "up"
    THEN __check_next_port(opc.upstream_part, opc.upstream_output_port, pol, lenopt)
    ELSE __check_next_port(opc.downstream_part, opc.downstream_input_port, pol, lenopt)

\* A choice that falls back on the first option when none passes.
choose_next_one_or_first(direction, options, pol) ==
    LET passing == { i \in 1..Len(options) : option_passes(direction, options[i], pol, Len(options)) }
    IN  IF Len(options) = 0 THEN NoConn
        ELSE IF passing = {} THEN options[1]
        ELSE options[CHOOSE i \in passing : \A j \in passing : i <= j]

\* The choice __get_next_connection makes among its options: the first that passes.
choose_next_one(direction, options, pol) ==
    LET passing == { i \in 1..Len(options) : option_passes(direction, options[i], pol, Len(options)) }
    IN  IF passing = {} THEN NoConn
        ELSE options[CHOOSE i \in passing : \A j \in passing : i <= j]

\* Hookup.__get_next_connection
__get_next_connection(direction, part, rev, pol) ==
    choose_next_one(direction, connection_options(direction, part, rev), pol)

\* Hookup.__get_part_types_found
RECURSIVE add_types(_, _, _)
add_types(huco, i, found) ==
    IF i > Len(huco) THEN found
    ELSE LET part_type == lower(get_part_type_for(huco[i].upstream_part))
         IN  add_types(huco, i + 1, IF In(part_type, found) THEN found ELSE Append(found, part_type))

__get_part_types_found(huco, found) ==
    IF Len(huco) = 0 THEN found
    ELSE LET ups == add_types(huco, 1, found)
             part_type == lower(get_part_type_for(huco[Len(huco)].downstream_part))
         IN  IF In(part_type, ups) THEN ups ELSE Append(ups, part_type)

\* The first epoch, in checking order, whose path holds every part type found
\* (the for ... else loop of __get_column_headers and of
\* HookupEntry.get_hookup_type_and_column_headers); "" when there is none.
RECURSIVE first_epoch_holding(_, _, _)
first_epoch_holding(order, i, found) ==
    IF i > Len(order) THEN ""
    ELSE IF \A j \in 1..Len(found) : In(found[j], full_connection_path[order[i]])
         THEN order[i]
         ELSE first_epoch_holding(order, i + 1, found)

\* The part types found that are on `path`, in the order they were found.
columns_of_found_order(path, found) == SelectSeq(found, LAMBDA c : In(c, path))

\* The part types of `path` that were found, in path order.
columns_of(path, found) == SelectSeq(path, LAMBDA c : In(c, found))

\* Column headers that try the epochs in the reverse of the checking order.
__get_column_headers_reversed_order(found) ==
    IF Len(found) = 0 THEN << << >>, [epoch |-> "", path |-> << >>] >>
    ELSE LET is_this_one == first_epoch_holding(reversed(test_checking_order), 1, found)
         IN  IF is_this_one = "" THEN << << >>, [epoch |-> "", path |-> << >>] >>
             ELSE << columns_of(full_connection_path[is_this_one], found),
                     [epoch |-> is_this_one, path |-> full_connection_path[is_this_one]] >>

\* Hookup.__get_column_headers: << colhead, parts_epoch >>; epoch "" is None
__get_column_headers(found) ==
    IF Len(found) = 0 THEN << << >>, [epoch |-> "", path |-> << >>] >>
    ELSE LET is_this_one == first_epoch_holding(test_checking_order, 1, found)
         IN  IF is_this_one = "" THEN << << >>, [epoch |-> "", path |-> << >>] >>
             ELSE << columns_of(full_connection_path[is_this_one], found),
                     [epoch |-> is_this_one, path |-> full_connection_path[is_this_one]] >>

\* A timing loop that keeps the stop of the last connection it saw.
RECURSIVE timing_loop_last_stop(_, _, _, _)
timing_loop_last_stop(pol, i, latest_start, earliest_stop) ==
    IF i > Len(pol) THEN << latest_start, earliest_stop >>
    ELSE LET c == pol[i]
             ls == IF c.start_gpstime > latest_start THEN c.start_gpstime ELSE latest_start
         IN  timing_loop_last_stop(pol, i + 1, ls, c.stop_gpstime)

\* The loop over the connections of one chain that finds its timing:
\* << latest_start, earliest_stop >>, starting from << 0, None >>.
RECURSIVE timing_loop(_, _, _, _)
timing_loop(pol, i, latest_start, earliest_stop) ==
    IF i > Len(pol) THEN << latest_start, earliest_stop >>
    ELSE LET c == pol[i]
             ls == IF c.start_gpstime > latest_start THEN c.start_gpstime ELSE latest_start
             es == IF c.stop_gpstime = None THEN earliest_stop
                   ELSE IF earliest_stop = None THEN c.stop_gpstime
                   ELSE IF c.stop_gpstime < earliest_stop THEN c.stop_gpstime
                   ELSE earliest_stop
         IN  timing_loop(pol, i + 1, ls, es)

\* Flags that ask of a chain as many connections as the path has part types.
__add_hookup_timing_and_flags_path_length(hd) ==
    LET full_hookup_length == Len(hd.parts_epoch.path)
    IN  [ hd EXCEPT
            !.timing = [ akey \in DOMAIN hd.hookup |->
                           [ pkey \in DOMAIN hd.hookup[akey] |->
                               timing_loop(hd.hookup[akey][pkey], 1, 0, None) ] ],
            !.fully_connected = [ akey \in DOMAIN hd.hookup |->
                           [ pkey \in DOMAIN hd.hookup[akey] |->
                               Len(hd.hookup[akey][pkey]) = full_hookup_length ] ],
            !.columns = hd.columns \o <<"start", "stop">> ]

\* Hookup.__add_hookup_timing_and_flags
__add_hookup_timing_and_flags(hd) ==
    LET full_hookup_length == Len(hd.parts_epoch.path) - 1
    IN  [ hd EXCEPT
            !.timing = [ akey \in DOMAIN hd.hookup |->
                           [ pkey \in DOMAIN hd.hookup[akey] |->
                               timing_loop(hd.hookup[akey][pkey], 1, 0, None) ] ],
            !.fully_connected = [ akey \in DOMAIN hd.hookup |->
                           [ pkey \in DOMAIN hd.hookup[akey] |->
                               Len(hd.hookup[akey][pkey]) = full_hookup_length ] ],
            !.columns = hd.columns \o <<"start", "stop">> ]

\* cm_dossier.HookupEntry.__init__(entry_key, sysdef)
HookupEntry(entry_key) ==
    [ entry_key |-> entry_key, hookup |-> << >>, fully_connected |-> << >>,
      hookup_type |-> << >>, columns |-> << >>, timing |-> << >> ]

\* HookupEntry.get_hookup_type_and_column_headers; hookup_type "" is None
get_hookup_type_and_column_headers(self, port, found) ==
    LET is_this_one == IF Len(found) = 0 THEN ""
                       ELSE first_epoch_holding(test_checking_order, 1, found)
    IN  [ self EXCEPT
            !.hookup_type = (port :> is_this_one) @@ @,
            !.columns = (port :> ( IF is_this_one = "" THEN << >>
                                   ELSE columns_of(full_connection_path[is_this_one], found) )) @@ @ ]

\* HookupEntry.add_timing_and_fully_connected
add_timing_and_fully_connected(self, port) ==
    LET full_hookup_length ==
            IF self.hookup_type[port] # ""
            THEN Len(full_connection_path[self.hookup_type[port]]) - 1
            ELSE 0 - 1
    IN  [ self EXCEPT
            !.timing = (port :> timing_loop(self.hookup[port], 1, 0, None)) @@ @,
            !.fully_connected = (port :> (Len(self.hookup[port]) = full_hookup_length)) @@ @,
            !.columns = (port :> (self.columns[port] \o <<"start", "stop">>)) @@ @ ]

\* A HookupEntry of the chains of one part: for every port the part types of its
\* chain, the hookup type and columns, then the timing and the flag.
RECURSIVE fill_entry(_, _, _)
fill_entry(self, chains, ports) ==
    IF ports = {} THEN self
    ELSE LET port == CHOOSE q \in ports : TRUE
             with_chain == [self EXCEPT !.hookup = (port :> chains[port]) @@ @]
             found == __get_part_types_found(chains[port], << >>)
             typed == get_hookup_type_and_column_headers(with_chain, port, found)
         IN  fill_entry(add_timing_and_fully_connected(typed, port), chains, ports \ {port})

\* The work of the loops of __get_hookup: a (part, pol) pair for every pol of
\* every listed part that is active at at_date.
RECURSIVE work_items(_, _, _)
work_items(parts, i, port_query) ==
    IF i > Len(parts) THEN << >>
    ELSE LET part == parts[i]
             pols_to_do == __get_pols_to_do(part.hpn, port_query)
             mine == IF _is_active(at_date, part.start_date, part.stop_date)
                     THEN [ j \in 1..Len(pols_to_do) |->
                              [ k |-> part.key, hpn |-> part.hpn, hpn_rev |-> part.hpn_rev,
                                pol |-> pols_to_do[j] ] ]
                     ELSE << >>
         IN  mine \o work_items(parts, i + 1, port_query)

\* The leg the running __recursive_go appends to.
leg == IF current.direction = "up" THEN upstream ELSE downstream

\* Hookup.__get_hookup, up to its loop over the parts
__get_hookup(hpn_list, port_query) ==
    /\ pc = "idle"
    /\ UNCHANGED beyond_query
    /\ todo' = work_items(get_part_dossier(hpn_list), 1, port_query)
    /\ hookup_dict' = __get_empty_hookup_dict
    /\ part_types_found' = << >>
    /\ pc' = "loop"
    /\ UNCHANGED << connections, at_date, key, seed, current, upstream, downstream, step, entries >>

\* A __follow_hookup_stream that starts on the legs the last walk left.
__follow_hookup_stream_keeping_legs ==
    /\ pc = "loop"
    /\ UNCHANGED beyond_query
    /\ todo # << >>
    /\ LET item == Head(todo)
       IN  /\ key' = [k |-> item.k, pol |-> item.pol]
           /\ seed' = [part |-> item.hpn, rev |-> item.hpn_rev, pol |-> item.pol]
           /\ current' = [direction |-> "up", part |-> item.hpn, rev |-> item.hpn_rev]
           /\ hookup_dict' = IF item.k \in DOMAIN hookup_dict.hookup THEN hookup_dict
                             ELSE [hookup_dict EXCEPT !.hookup = (item.k :> << >>) @@ @]
    /\ todo' = Tail(todo)
    /\ pc' = "go"
    /\ UNCHANGED << connections, at_date, upstream, downstream, step, part_types_found, entries >>

\* Hookup.__follow_hookup_stream, up to its first __recursive_go
__follow_hookup_stream ==
    /\ pc = "loop"
    /\ UNCHANGED beyond_query
    /\ todo # << >>
    /\ LET item == Head(todo)
       IN  /\ key' = [k |-> item.k, pol |-> item.pol]
           /\ seed' = [part |-> item.hpn, rev |-> item.hpn_rev, pol |-> item.pol]
           /\ current' = [direction |-> "up", part |-> item.hpn, rev |-> item.hpn_rev]
           /\ hookup_dict' = IF item.k \in DOMAIN hookup_dict.hookup THEN hookup_dict
                             ELSE [hookup_dict EXCEPT !.hookup = (item.k :> << >>) @@ @]
    /\ todo' = Tail(todo)
    /\ upstream' = << >>
    /\ downstream' = << >>
    /\ pc' = "go"
    /\ UNCHANGED << connections, at_date, step, part_types_found, entries >>

\* Hookup.__recursive_go: one call, with the __get_next_connection it makes
__recursive_go ==
    /\ pc = "go"
    /\ UNCHANGED beyond_query
    /\ Len(leg) < MaxDepth
    /\ LET options == connection_options(current.direction, current.part, current.rev)
           conn == choose_next_one(current.direction, options, seed.pol)
       IN  /\ step' = [ direction |-> current.direction, part |-> current.part,
                        rev |-> current.rev, pol |-> seed.pol,
                        options |-> options, next_one |-> conn ]
           /\ \/ /\ conn # NoConn
                 /\ current.direction = "up"
                 /\ upstream' = Append(upstream, conn)
                 /\ current' = [current EXCEPT !.part = conn.upstream_part, !.rev = conn.up_part_rev]
                 /\ UNCHANGED << downstream, pc >>
              \/ /\ conn # NoConn
                 /\ current.direction = "down"
                 /\ downstream' = Append(downstream, conn)
                 /\ current' = [current EXCEPT !.part = conn.downstream_part, !.rev = conn.down_part_rev]
                 /\ UNCHANGED << upstream, pc >>
              \/ /\ conn = NoConn
                 /\ current.direction = "up"
                 /\ current' = [direction |-> "down", part |-> seed.part, rev |-> seed.rev]
                 /\ UNCHANGED << upstream, downstream, pc >>
              \/ /\ conn = NoConn
                 /\ current.direction = "down"
                 /\ pc' = "collect"
                 /\ UNCHANGED << upstream, downstream, current >>
    /\ UNCHANGED << connections, at_date, todo, key, seed, part_types_found, hookup_dict, entries >>

\* The call of __recursive_go the interpreter refuses: the recursion is MaxDepth deep.
RecursionError ==
    /\ pc = "go"
    /\ UNCHANGED beyond_query
    /\ Len(leg) >= MaxDepth
    /\ pc' = "RecursionError"
    /\ UNCHANGED << connections, at_date, todo, key, seed, current, upstream, downstream,
                    step, part_types_found, hookup_dict, entries >>

\* A chain that joins the legs without reversing the upstream one.
hu_of_unreversed(up, down) == up \o down

\* The chain __follow_hookup_stream returns: the upstream leg reversed, then the downstream leg.
hu_of(up, down) == reversed(up) \o down

\* The end of __follow_hookup_stream and the two statements of __get_hookup that use its result
follow_hookup_stream_return ==
    /\ pc = "collect"
    /\ UNCHANGED beyond_query
    /\ LET hu == hu_of(upstream, downstream)
       IN  /\ hookup_dict' = [hookup_dict EXCEPT !.hookup[key.k] = (key.pol :> hu) @@ @]
           /\ part_types_found' = __get_part_types_found(hu, part_types_found)
    /\ pc' = "loop"
    /\ UNCHANGED << connections, at_date, todo, key, seed, current, upstream, downstream, step, entries >>

\* The end of __get_hookup: the column headers, the timing and the flags
get_hookup_return ==
    /\ pc = "loop"
    /\ UNCHANGED beyond_query
    /\ todo = << >>
    /\ LET ch == __get_column_headers(part_types_found)
           hd == [hookup_dict EXCEPT !.columns = ch[1], !.parts_epoch = ch[2]]
       IN  hookup_dict' = IF Len(hd.columns) # 0 THEN __add_hookup_timing_and_flags(hd) ELSE hd
    /\ pc' = "done"
    /\ UNCHANGED << connections, at_date, todo, key, seed, current, upstream, downstream,
                    step, part_types_found, entries >>

\* The HookupEntry objects of the chains found, one per part key.
make_entries ==
    /\ pc = "done"
    /\ UNCHANGED beyond_query
    /\ entries' = [ k \in DOMAIN hookup_dict.hookup |->
                      fill_entry(HookupEntry(k), hookup_dict.hookup[k], DOMAIN hookup_dict.hookup[k]) ]
    /\ pc' = "entries"
    /\ UNCHANGED << connections, at_date, todo, key, seed, current, upstream, downstream,
                    step, part_types_found, hookup_dict >>

---------------------------------------------------------------------------
\* cm_sysdef: setup and next_connection

MaxOptions == 3

all_pols ==
    [ x \in DOMAIN port_def |-> IF x = "parts_test" THEN << >> ELSE <<"e", "n">> ]

single_pol_labeled_parts ==
    [ x \in DOMAIN port_def |->
        IF x = "parts_paper"
        THEN <<"cable-post-amp(in)", "cable-post-amp(out)", "cable-receiverator">>
        ELSE << >> ]

\* The part dossiers setup and next_connection are handed: the part number, its
\* type, and the ports its connections use (part.connections.input_ports / output_ports).
Part(hpn, part_type, input_ports, output_ports) ==
    [hpn |-> hpn, part_type |-> part_type, input_ports |-> input_ports, output_ports |-> output_ports]

sysdef_parts ==
    ( "FDV1" :> Part("FDV1", "feed", <<"input">>, <<"terminals">>) @@
      "FEA1" :> Part("FEA1", "front-end", <<"input">>, <<"e", "n">>) @@
      "FEA2" :> Part("FEA2", "front-end", <<"input">>, <<"e", "n">>) @@
      "CRF1" :> Part("CRF1", "cable-rfof", <<"ea", "na">>, <<"eb", "nb">>) @@
      "PAM1" :> Part("PAM1", "post-amp", <<"ea", "na">>, <<"eb", "nb">>) @@
      "SNP1" :> Part("SNP1", "snap", <<"e2", "n0">>, <<"rack">>) @@
      "NOD1" :> Part("NOD1", "node", <<"loc1">>, << >>) @@
      "RI1E" :> Part("RI1E", "cable-post-amp(in)", <<"a">>, <<"b">>) @@
      "X1" :> Part("X1", "x", << >>, << >>) )

\* the parts a call is made for
sysdef_seeds == {"FDV1", "CRF1", "NOD1", "RI1E", "X1"}

\* the part types and the forced hookup types find_hookup_type is called with
\* ("" is None)
sysdef_part_types == {"station", "feed", "temp-cable", "cable-post-amp(in)", "vapor", "x"}
sysdef_hookup_types == {"", "parts_hera", "parts_paper", "parts_test", "parts_none"}

\* the rows conn_options is drawn from
sysdef_rows ==
    << Connections("CRF1", "A", "eb", "PAM1", "A", "ea", 0, None),
       Connections("CRF1", "A", "nb", "PAM1", "A", "na", 0, None),
       Connections("CRF1", "A", "eb", "PAM1", "A", "na", 0, None),
       Connections("CRF1", "A", "e2", "PAM1", "A", "ea", 0, None),
       Connections("CRF1", "A", "eb", "SNP1", "A", "e2", 0, None),
       Connections("CRF1", "A", "eb", "PAM1", "A", "@ea", 0, None),
       Connections("FEA1", "A", "e", "CRF1", "A", "ea", 0, None),
       Connections("FEA1", "A", "n", "CRF1", "A", "na", 0, None),
       Connections("FDV1", "A", "terminals", "FEA1", "A", "input", 0, None),
       Connections("FDV1", "A", "e", "FEA2", "A", "input", 0, None),
       Connections("RI1E", "A", "b", "PAM1", "A", "ea", 0, None),
       Connections("RI1E", "A", "b", "PAM1", "A", "na", 0, None),
       Connections("SNP1", "A", "rack", "NOD1", "A", "loc1", 0, None) >>

sysdef_ports == {"eb", "nb", "ea", "terminals"}
sysdef_port_queries == {"all", "e", "n"}

\* cm_sysdef.find_hookup_type; "ValueError" when it raises
RECURSIVE first_epoch_of(_, _)
first_epoch_of(part_type, i) ==
    IF i > Len(checking_order) THEN "ValueError"
    ELSE IF part_type \in DOMAIN port_def[checking_order[i]] THEN checking_order[i]
    ELSE first_epoch_of(part_type, i + 1)

\* find_hookup_type searching the epochs from the last to the first
find_hookup_type_last_first(part_type, hookup_type) ==
    IF hookup_type \in DOMAIN port_def THEN hookup_type
    ELSE IF hookup_type = ""
         THEN IF \E i \in 1..Len(checking_order) : part_type \in DOMAIN port_def[checking_order[i]]
              THEN checking_order[CHOOSE i \in 1..Len(checking_order) :
                       /\ part_type \in DOMAIN port_def[checking_order[i]]
                       /\ \A j \in 1..Len(checking_order) :
                             part_type \in DOMAIN port_def[checking_order[j]] => j <= i]
              ELSE "ValueError"
    ELSE "ValueError"

find_hookup_type(part_type, hookup_type) ==
    IF hookup_type \in DOMAIN port_def THEN hookup_type
    ELSE IF hookup_type = "" THEN first_epoch_of(part_type, 1)
    ELSE "ValueError"

\* [i for i, _p in enumerate(all_pols[hookup_type])] as the dict pind is left with
pind_of(old, hookup_type) ==
    [ q \in Elems(all_pols[hookup_type]) |->
        (CHOOSE i \in 1..Len(all_pols[hookup_type]) : all_pols[hookup_type][i] = q) - 1 ] @@ old

\* sum of the port groups of one direction of a part type
RECURSIVE consolidated(_, _)
consolidated(groups, i) ==
    IF i > Len(groups) THEN << >> ELSE groups[i] \o consolidated(groups, i + 1)

\* pol_catalog[dir][poldes] of setup: the connected ports of the part that the
\* topology knows, by polarization designator ('a' holds those of 'e' and 'n')
pol_catalog(hookup_type, part, dir, poldes) ==
    LET info == port_def[hookup_type][part.part_type]
        known == consolidated(IF dir = "up" THEN info.up ELSE info.down, 1)
        connected == IF dir = "up" THEN part.input_ports ELSE part.output_ports
        des(cp) == IF In(first_char(cp), all_pols[hookup_type]) THEN first_char(cp) ELSE "o"
    IN  SelectSeq(connected,
            LAMBDA cp : /\ In(lower(cp), known)
                        /\ \/ des(lower(cp)) = poldes
                           \/ poldes = "a" /\ des(lower(cp)) # "o")

\* The value setup returns: a list, the port_query string itself, or None.
setup_return(hookup_type, part, port_query) ==
    LET q == lower(port_query)
        up == pol_catalog(hookup_type, part, "up", first_char(q))
        dn == pol_catalog(hookup_type, part, "down", first_char(q))
    IN  IF In(part.part_type, single_pol_labeled_parts[hookup_type])
        THEN IF q = "all" \/ lower(last_char(part.hpn)) = q
             THEN [kind |-> "list", value |-> << lower(last_char(part.hpn)) >>]
             ELSE [kind |-> "None", value |-> << >>]
        ELSE IF Len(up) + Len(dn) = 0
             THEN IF q = "all" THEN [kind |-> "list", value |-> all_pols[hookup_type]]
                  ELSE [kind |-> "str", value |-> << q >>]
        ELSE [kind |-> "list", value |-> IF Len(up) > Len(dn) THEN up ELSE dn]

\* _D of cm_sysdef
D_this(direction) == IF direction = "up" THEN "down" ELSE "up"
D_arrow(direction) == IF direction = "up" THEN 0 - 1 ELSE 1

\* the port groups of a part type on the side `side`
groups_of(info, side) == IF side = "up" THEN info.up ELSE info.down

\* getattr(opc, '{}stream_{}put_port') of next_connection for this side and the next
this_port_of(opc, direction) ==
    IF D_this(direction) = "up" THEN opc.upstream_output_port ELSE opc.downstream_input_port
next_port_of(opc, direction) ==
    IF direction = "up" THEN opc.upstream_output_port ELSE opc.downstream_input_port

NoCall == [ op |-> "", connection_options |-> << >>,
            current |-> [direction |-> "", pol |-> "", port |-> ""],
            A |-> "", result |-> NoConn, pols |-> [kind |-> "None", value |-> << >>], raised |-> "",
            part_type |-> "", hookup_type |-> "", epoch |-> "" ]

\* The loop of next_connection over conn_options: either the option it
\* returns at once, or the options left for the two passes.
RECURSIVE options_loop(_, _, _, _, _, _)
options_loop(conn_options, cur, A, B, i, options) ==
    LET path == full_connection_path[this_hookup_type]
        next_part_type == path[port_def[this_hookup_type][A.part_type].position
                                 + D_arrow(cur.direction) + 1]
        next_part_type_info == port_def[this_hookup_type][next_part_type]
        prefix_this == IF In(A.part_type, single_pol_labeled_parts[this_hookup_type])
                       THEN lower(last_char(A.hpn)) ELSE ""
    IN  IF i > Len(conn_options) THEN [returned |-> FALSE, options |-> options]
        ELSE LET opc == conn_options[i]
                 prefix_next == IF In(next_part_type, single_pol_labeled_parts[this_hookup_type])
                                THEN lower(last_char(B[i].hpn)) ELSE ""
                 this_port == prefix_this \o this_port_of(opc, cur.direction)
                 next_port == prefix_next \o next_port_of(opc, cur.direction)
             IN  IF B[i].part_type # next_part_type
                 THEN options_loop(conn_options, cur, A, B, i + 1, options)
                 ELSE IF \/ Len(conn_options) = 1
                         \/ Len(groups_of(next_part_type_info, D_this(cur.direction))) = 1
                 THEN [returned |-> TRUE, option |-> opc]
                 ELSE IF first_char(next_port) = "@"
                 THEN options_loop(conn_options, cur, A, B, i + 1, options)
                 ELSE options_loop(conn_options, cur, A, B, i + 1,
                         Append(options, [this |-> this_port, next |-> next_port, option |-> opc]))

\* the first of the options whose index is in `passing`, or no connection
first_passing(options, passing) ==
    IF passing = {} THEN NoConn
    ELSE options[CHOOSE i \in passing : \A j \in passing : i <= j].option

\* the options that pass the first pass of next_connection, and the second
first_pass(options, cur, allowed_next_ports) ==
    { i \in 1..Len(options) :
        cur.port = options[i].this /\ In(options[i].next, allowed_next_ports) }
second_pass(options, cur, allowed_next_ports) ==
    { i \in 1..Len(options) :
        /\ first_char(cur.pol) = first_char(options[i].this)
        /\ In(options[i].next, allowed_next_ports) }

\* next_connection with its two passes in the other order
next_connection_second_pass_first(conn_options, cur, A, B) ==
    LET path == full_connection_path[this_hookup_type]
        next_part_position == port_def[this_hookup_type][A.part_type].position
                                + D_arrow(cur.direction)
    IN  IF next_part_position < 0 \/ next_part_position > Len(path) - 1 THEN NoConn
        ELSE LET groups == groups_of(port_def[this_hookup_type][path[next_part_position + 1]],
                                     D_this(cur.direction))
                 allowed_next_ports == groups[pind[cur.pol] + 1]
                 loop == options_loop(conn_options, cur, A, B, 1, << >>)
             IN  IF loop.returned THEN loop.option
                 ELSE IF second_pass(loop.options, cur, allowed_next_ports) # {}
                 THEN first_passing(loop.options, second_pass(loop.options, cur, allowed_next_ports))
                 ELSE first_passing(loop.options, first_pass(loop.options, cur, allowed_next_ports))

\* cm_sysdef.next_connection; no connection is None.  It reads the globals
\* this_hookup_type and pind that the last setup left.
next_connection(conn_options, cur, A, B) ==
    LET path == full_connection_path[this_hookup_type]
        next_part_position == port_def[this_hookup_type][A.part_type].position
                                + D_arrow(cur.direction)
    IN  IF next_part_position < 0 \/ next_part_position > Len(path) - 1 THEN NoConn
        ELSE LET groups == groups_of(port_def[this_hookup_type][path[next_part_position + 1]],
                                     D_this(cur.direction))
                 allowed_next_ports == groups[pind[cur.pol] + 1]
                 loop == options_loop(conn_options, cur, A, B, 1, << >>)
             IN  IF loop.returned THEN loop.option
                 ELSE IF first_pass(loop.options, cur, allowed_next_ports) # {}
                 THEN first_passing(loop.options, first_pass(loop.options, cur, allowed_next_ports))
                 ELSE first_passing(loop.options, second_pass(loop.options, cur, allowed_next_ports))

\* the part dossiers B of the parts the options lead to
B_of(conn_options, direction) ==
    [ i \in 1..Len(conn_options) |->
        sysdef_parts[IF direction = "up" THEN conn_options[i].upstream_part
                     ELSE conn_options[i].downstream_part] ]

\* the rows of sysdef_rows incident on part hpn on the side the direction names
incident_rows(hpn, direction) ==
    { i \in 1..Len(sysdef_rows) :
        IF direction = "up" THEN sysdef_rows[i].downstream_part = hpn
        ELSE sysdef_rows[i].upstream_part = hpn }

\* the lists of up to MaxOptions different rows of R, in every order
option_lists(R) ==
    UNION { { [ i \in 1..n |-> sysdef_rows[f[i]] ] :
                f \in { g \in [1..n -> R] : \A a, b \in 1..n : a # b => g[a] # g[b] } } :
            n \in 0..MaxOptions }

\* A call of find_hookup_type(part_type, hookup_type): the epoch it returns, or
\* the ValueError it raises.
call_find_hookup_type(part_type, hookup_type) ==
    /\ pc = "sysdef"
    /\ LET found == find_hookup_type(part_type, hookup_type)
       IN  sysdef_call' = [ NoCall EXCEPT
                              !.op = "find_hookup_type",
                              !.part_type = part_type, !.hookup_type = hookup_type,
                              !.epoch = IF found = "ValueError" THEN "" ELSE found,
                              !.raised = IF found = "ValueError" THEN "ValueError" ELSE "" ]
    /\ UNCHANGED << this_hookup_type, pind >>
    /\ UNCHANGED << hookup_vars, repeat_vars, cache_vars, extra_vars >>

\* A call of setup(part, port_query): it leaves the hookup type of the part and
\* the index of every polarization in the module's globals.  For a part type no
\* epoch holds find_hookup_type raises before a global is written.
setup(part, port_query) ==
    /\ pc = "sysdef"
    /\ LET hookup_type == find_hookup_type(part.part_type, "")
       IN  IF hookup_type = "ValueError"
           THEN /\ sysdef_call' = [ NoCall EXCEPT !.op = "setup", !.A = part.hpn,
                                      !.part_type = part.part_type, !.raised = "ValueError" ]
                /\ UNCHANGED << this_hookup_type, pind >>
           ELSE /\ this_hookup_type' = hookup_type
                /\ pind' = pind_of(pind, hookup_type)
                /\ sysdef_call' = [ NoCall EXCEPT !.op = "setup", !.A = part.hpn,
                                      !.part_type = part.part_type, !.epoch = hookup_type,
                                      !.pols = setup_return(hookup_type, part, port_query) ]
    /\ UNCHANGED << hookup_vars, repeat_vars, cache_vars, extra_vars >>

\* A call of next_connection(conn_options, cur, A, B) after a setup.  The result
\* depends on the arguments and on the globals the setup left only, so one call
\* after each setup shows them all.  The part type of A is looked up in the
\* topology of the hookup type the last setup left: a type it does not hold is
\* a KeyError.
call_next_connection(conn_options, cur, A, B) ==
    /\ pc = "sysdef"
    /\ this_hookup_type # ""
    /\ sysdef_call.op = "setup"
    /\ sysdef_call' =
          [ NoCall EXCEPT
              !.op = "next_connection", !.connection_options = conn_options,
              !.current = cur, !.A = A.hpn,
              !.result = IF A.part_type \in DOMAIN port_def[this_hookup_type]
                         THEN next_connection(conn_options, cur, A, B)
                         ELSE NoConn,
              !.raised = IF A.part_type \in DOMAIN port_def[this_hookup_type]
                         THEN "" ELSE "KeyError" ]
    /\ UNCHANGED << this_hookup_type, pind >>
    /\ UNCHANGED << hookup_vars, repeat_vars, cache_vars, extra_vars >>

\* No query is running and none has run.
NoQuery ==
    /\ pc = "idle"
    /\ todo = << >>
    /\ key = [k |-> "", pol |-> ""]
    /\ seed = [part |-> "", rev |-> "", pol |-> ""]
    /\ current = [direction |-> "", part |-> "", rev |-> ""]
    /\ upstream = << >>
    /\ downstream = << >>
    /\ step = NoStep
    /\ part_types_found = << >>
    /\ hookup_dict = __get_empty_hookup_dict
    /\ entries = << >>

\* No call of cm_sysdef has been made, no query has been repeated.
NoSysdef ==
    /\ this_hookup_type = ""
    /\ pind = << >>
    /\ sysdef_call = NoCall
    /\ earlier = << >>
    /\ queries = 0

\* No process has the cache file open.
NoFileAccess ==
    /\ npy = << >>
    /\ handle = << >>

\* No query shares the module cm_sysdef with another.
NoSharing ==
    /\ query_of = << >>

NoRevCall == [ op |-> "", rev_type |-> "", at_date |-> None, interval |-> << >>,
               truth |-> FALSE, returned |-> << >>, warned |-> FALSE, raised |-> "" ]

\* No revision of a part is asked for.
NoRevisions ==
    /\ part_revisions = << >>
    /\ rev_call = NoRevCall

\* One Hookup object lives at a time.
NoObjects ==
    /\ running = ""
    /\ parked = << >>
    /\ held_since = None

NoEntryCall == [ op |-> "", key |-> "", part_type |-> "", entry_key |-> "None", sysdef |-> "None",
                 input_dict |-> NoDict, returned |-> << >>, entry |-> NoDict, raised |-> "" ]

\* No method of a HookupEntry is called.
NoEntryCalls ==
    /\ entry_call = NoEntryCall

NoExtra ==
    /\ NoFileAccess
    /\ NoSharing
    /\ NoRevisions
    /\ NoObjects
    /\ NoEntryCalls

\* No cache is in play: the queries are answered from the records.
NoCache ==
    /\ cache_file = NoFile
    /\ cached_hookup_dict = NoDict
    /\ cm_hash_time = 0
    /\ now = 0
    /\ written_under = None
    /\ get_hookup_call = NoGet

Init ==
    /\ \E S \in SUBSET (1..Len(conn_rows)) :
          /\ Cardinality(S) <= MaxConns
          /\ connections = rows_of(S, 1)
    /\ at_date \in at_dates
    /\ pc = "idle"
    /\ todo = << >>
    /\ key = [k |-> "", pol |-> ""]
    /\ seed = [part |-> "", rev |-> "", pol |-> ""]
    /\ current = [direction |-> "", part |-> "", rev |-> ""]
    /\ upstream = << >>
    /\ downstream = << >>
    /\ step = NoStep
    /\ part_types_found = << >>
    /\ hookup_dict = __get_empty_hookup_dict
    /\ entries = << >>
    /\ this_hookup_type = ""
    /\ pind = << >>
    /\ sysdef_call = NoCall
    /\ earlier = << >>
    /\ queries = 0
    /\ NoCache
    /\ NoExtra

Next ==
    \/ \E hpn_list \in hpn_lists, port_query \in port_queries : __get_hookup(hpn_list, port_query)
    \/ __follow_hookup_stream
    \/ __recursive_go
    \/ RecursionError
    \/ follow_hookup_stream_return
    \/ get_hookup_return
    \/ make_entries

Spec == Init /\ [][Next]_vars

\* The calls of cm_sysdef on their own: no query is running.
SysdefInit ==
    /\ connections = << >>
    /\ at_date = 0
    /\ pc = "sysdef"
    /\ todo = << >>
    /\ key = [k |-> "", pol |-> ""]
    /\ seed = [part |-> "", rev |-> "", pol |-> ""]
    /\ current = [direction |-> "", part |-> "", rev |-> ""]
    /\ upstream = << >>
    /\ downstream = << >>
    /\ step = NoStep
    /\ part_types_found = << >>
    /\ hookup_dict = __get_empty_hookup_dict
    /\ entries = << >>
    /\ this_hookup_type = ""
    /\ pind = << >>
    /\ sysdef_call = NoCall
    /\ earlier = << >>
    /\ queries = 0
    /\ NoCache
    /\ NoExtra

SysdefNext ==
    \/ \E part_type \in sysdef_part_types, hookup_type \in sysdef_hookup_types :
          call_find_hookup_type(part_type, hookup_type)
    \/ \E hpn \in sysdef_seeds, port_query \in sysdef_port_queries :
          setup(sysdef_parts[hpn], port_query)
    \/ \E hpn \in sysdef_seeds, direction \in {"up", "down"},
          port \in sysdef_ports, pol \in {"e", "n"} :
          \E conn_options \in option_lists(incident_rows(hpn, direction)) :
             call_next_connection(conn_options,
                                  [direction |-> direction, pol |-> pol, port |-> port],
                                  sysdef_parts[hpn], B_of(conn_options, direction))

SysdefSpec == SysdefInit /\ [][SysdefNext]_vars

---------------------------------------------------------------------------
\* Several queries of one Hookup object over the same records

MaxRepeatConns == 2
MaxQueries == 2

\* The as-of dates of a Hookup that is asked more than once, and the rows its
\* connections table is drawn from.
repeat_dates == {0, 101}
repeat_rows == {1, 2, 4, 5, 6, 10}

\* the chains of a returned hookup_dict, by (key, pol)
chains_of(hd) ==
    [ kp \in { q \in (DOMAIN hd.hookup) \X Elems(both_pols) : q[2] \in DOMAIN hd.hookup[q[1]] }
        |-> hd.hookup[kp[1]][kp[2]] ]

\* The caller takes the result of a query and asks the same Hookup object again:
\* the object keeps its at_date, its legs and its session.
get_hookup_again ==
    /\ pc = "entries"
    /\ queries < MaxQueries - 1
    /\ earlier' = earlier @@ chains_of(hookup_dict)
    /\ queries' = queries + 1
    /\ pc' = "idle"
    /\ UNCHANGED << connections, at_date, todo, key, seed, current, upstream, downstream,
                    step, part_types_found, hookup_dict, entries >>
    /\ UNCHANGED << sysdef_vars, cache_vars, extra_vars >>

RepeatInit ==
    /\ \E S \in SUBSET repeat_rows :
          /\ Cardinality(S) <= MaxRepeatConns
          /\ connections = rows_of(S, 1)
    /\ at_date \in repeat_dates
    /\ pc = "idle"
    /\ todo = << >>
    /\ key = [k |-> "", pol |-> ""]
    /\ seed = [part |-> "", rev |-> "", pol |-> ""]
    /\ current = [direction |-> "", part |-> "", rev |-> ""]
    /\ upstream = << >>
    /\ downstream = << >>
    /\ step = NoStep
    /\ part_types_found = << >>
    /\ hookup_dict = __get_empty_hookup_dict
    /\ entries = << >>
    /\ this_hookup_type = ""
    /\ pind = << >>
    /\ sysdef_call = NoCall
    /\ earlier = << >>
    /\ queries = 0
    /\ NoCache
    /\ NoExtra

RepeatNext ==
    \/ \E hpn_list \in hpn_lists, port_query \in port_queries : __get_hookup(hpn_list, port_query)
    \/ __follow_hookup_stream
    \/ __recursive_go
    \/ RecursionError
    \/ follow_hookup_stream_return
    \/ get_hookup_return
    \/ make_entries
    \/ get_hookup_again

RepeatSpec == RepeatInit /\ [][RepeatNext]_vars

---------------------------------------------------------------------------
\* The hookup cache: get_hookup answered from Hookup.cached_hookup_dict and the
\* cache file, by Hookup objects made one after the other over the same file.
\* A call with force_specific is the query of Spec.

MaxCacheConns == 2

\* The rows the cached tables are computed of, the as-of dates of the Hookup
\* objects and the times of the writes and updates (all on one time axis, in
\* seconds).
cache_rows == {1, 2}
cache_dates == {100, 101, 1000}
cache_times == {60, 500}

\* Hookup.hookup_list_to_cache, and the parts get_part_dossier finds for it with
\* exact_match False
hookup_list_to_cache == <<"A", "B">>
cached_hpn_list == <<"A1", "B1">>

\* what get_hookup is asked for: a list of part names, or the string 'cached'
scopes == { [list |-> <<"A1">>], [list |-> <<"a", "b1">>], [str |-> "cached"] }

\* contemporaneous_minutes of __check_hookup_cache_file
contemporaneous_minutes == 5

abs(x) == IF x < 0 THEN 0 - x ELSE x

\* A check that is content with a file being there.
__check_hookup_cache_file_exists_only == cache_file.exists

\* A check that tests the as-of dates before the time of the file.
__check_hookup_cache_file_dates_first ==
    IF ~cache_file.exists THEN FALSE
    ELSE IF cache_file.at_date > cm_hash_time /\ at_date > cm_hash_time THEN TRUE
    ELSE IF abs(cache_file.at_date - at_date) < 60 * contemporaneous_minutes THEN TRUE
    ELSE FALSE

\* Hookup.__check_hookup_cache_file
__check_hookup_cache_file ==
    IF ~cache_file.exists THEN FALSE
    ELSE IF cache_file.st_mtime < cm_hash_time THEN FALSE
    ELSE IF cache_file.at_date > cm_hash_time /\ at_date > cm_hash_time THEN TRUE
    ELSE IF abs(cache_file.at_date - at_date) < 60 * contemporaneous_minutes THEN TRUE
    ELSE FALSE

\* cm_utils._split_part_key(k)[0]: what stands before the colon
_split_part_key(k) ==
    SubSeq(k, 1, (CHOOSE i \in 1..Len(k) : SubSeq(k, i, i) = ":") - 1)

\* A test of the keys that takes every name as the first part of a part name.
use_this_one_by_prefix(k, hpn_list, exact_match) ==
    \E i \in 1..Len(hpn_list) :
       lower(prefix(_split_part_key(k), Len(hpn_list[i]))) = lower(hpn_list[i])

\* the test of get_hookup whether a key of the cached table is asked for
use_this_one(k, hpn_list, exact_match) ==
    LET hpn == _split_part_key(k)
        lowered == [ i \in 1..Len(hpn_list) |-> lower(hpn_list[i]) ]
    IN  IF exact_match
        THEN In(lower(hpn), lowered)
        ELSE \E i \in 1..Len(lowered) : lower(prefix(hpn, Len(lowered[i]))) = lowered[i]

\* A copy that is the object itself.
copy_copy_same_object(obj) == obj

\* copy.copy(obj): a new object
copy_copy(obj) == "copy of " \o obj

\* the column list with 'level' appended unless it is there
with_level(columns) == IF In("level", columns) THEN columns ELSE Append(columns, "level")

\* Hookup.add_correlator_levels; the levels themselves come from
\* correlator_levels.get_levels and stand as "level"
add_correlator_levels(hd) ==
    [ hd EXCEPT !.columns = with_level(@),
                !.levels = [ k \in DOMAIN hd.hookup |->
                               [ pkey \in DOMAIN hd.hookup[k] |-> "level" ] ] ]

\* get_hookup from the line after __set_hookup_cache on: what it returns or
\* raises, and the cached table as the call leaves it
build_hookup_dict(cached, scope, exact_match, show_levels) ==
    IF "str" \in DOMAIN scope
    THEN [ cached |-> cached, returned |-> cached, raised |-> "" ]
    ELSE LET use == { k \in DOMAIN cached.hookup : use_this_one(k, scope.list, exact_match) }
             columns_object == copy_copy("cached_hookup_dict['columns']")
             hd == [ hookup |-> [ k \in use |-> cached.hookup[k] ],
                     fully_connected |-> [ k \in use |-> cached.fully_connected[k] ],
                     parts_epoch |-> cached.parts_epoch,
                     columns |-> cached.columns,
                     timing |-> [ k \in use |-> cached.timing[k] ],
                     levels |-> << >> ]
         IN  IF \E k \in use : k \notin DOMAIN cached.fully_connected \/ k \notin DOMAIN cached.timing
             THEN [ cached |-> cached, returned |-> NoDict, raised |-> "KeyError" ]
             ELSE IF show_levels
             THEN [ cached |-> IF columns_object = "cached_hookup_dict['columns']"
                               THEN [ cached EXCEPT !.columns = with_level(@) ]
                               ELSE cached,
                    returned |-> add_correlator_levels(hd),
                    raised |-> "" ]
             ELSE [ cached |-> cached, returned |-> hd, raised |-> "" ]

\* what a call of get_hookup finds: the file, the last update, the object's table
seen_now ==
    [ exists |-> cache_file.exists, st_mtime |-> cache_file.st_mtime,
      at_date |-> cache_file.at_date, cm_hash_time |-> cm_hash_time,
      written_under |-> written_under, cached |-> cached_hookup_dict # NoDict ]

\* Hookup.__init__: another Hookup object over the same session and file
Hookup(new_at_date) ==
    /\ pc = "idle"
    /\ get_hookup_call.at # "__set_hookup_cache"
    /\ at_date' = new_at_date
    /\ cached_hookup_dict' = NoDict
    /\ get_hookup_call' = NoGet
    /\ UNCHANGED << connections, pc, todo, key, seed, current, upstream, downstream, step,
                    part_types_found, hookup_dict, entries >>
    /\ UNCHANGED << cache_file, cm_hash_time, now, written_under >>
    /\ UNCHANGED << sysdef_vars, repeat_vars, extra_vars >>

\* An update of the tables at time t leaves a CMVersion row with update_time t.
add_cm_version(t) ==
    /\ pc = "idle"
    /\ get_hookup_call.at # "__set_hookup_cache"
    /\ t >= now
    /\ cm_hash_time' = t
    /\ now' = t
    /\ UNCHANGED << cache_file, cached_hookup_dict, written_under, get_hookup_call >>
    /\ UNCHANGED << hookup_vars, sysdef_vars, repeat_vars, extra_vars >>

\* get_hookup without force_specific, up to the recomputation if there is one:
\* with the file in order it reads the file if the object has no table yet and
\* returns.
get_hookup(scope, exact_match, show_levels, force_new) ==
    /\ pc = "idle"
    /\ get_hookup_call.at # "__set_hookup_cache"
    /\ LET call == [ NoGet EXCEPT !.hpn_list = scope, !.exact_match = exact_match,
                                  !.show_levels = show_levels, !.force_new = force_new,
                                  !.seen = seen_now ]
       IN  IF force_new \/ ~__check_hookup_cache_file
           THEN /\ get_hookup_call' = [ call EXCEPT !.at = "__set_hookup_cache", !.recomputed = TRUE ]
                /\ UNCHANGED cached_hookup_dict
           ELSE LET cached == IF cached_hookup_dict = NoDict THEN cache_file.hookup_dict
                                                             ELSE cached_hookup_dict
                    built == build_hookup_dict(cached, scope, exact_match, show_levels)
                IN  /\ cached_hookup_dict' = built.cached
                    /\ get_hookup_call' = [ call EXCEPT !.at = "return",
                                                        !.returned = built.returned,
                                                        !.raised = built.raised ]
    /\ UNCHANGED << cache_file, cm_hash_time, now, written_under >>
    /\ UNCHANGED << hookup_vars, sysdef_vars, repeat_vars, extra_vars >>

\* __set_hookup_cache, the recomputation: __get_hookup of hookup_list_to_cache
\* with port_query 'all'
__set_hookup_cache ==
    /\ get_hookup_call.at = "__set_hookup_cache"
    /\ __get_hookup(cached_hpn_list, "all")

\* The recomputation is through: the table becomes the object's table and is
\* written to the file at time t, and get_hookup goes on to its return.
__write_hookup_cache_to_file(t) ==
    /\ pc = "done"
    /\ get_hookup_call.at = "__set_hookup_cache"
    /\ t >= now
    /\ cache_file' = [ exists |-> TRUE, st_mtime |-> t, at_date |-> at_date,
                       hookup_list |-> hookup_list_to_cache, hookup_dict |-> hookup_dict ]
    /\ now' = t
    /\ written_under' = cm_hash_time
    /\ LET built == build_hookup_dict(hookup_dict, get_hookup_call.hpn_list,
                                      get_hookup_call.exact_match, get_hookup_call.show_levels)
       IN  /\ cached_hookup_dict' = built.cached
           /\ get_hookup_call' = [ get_hookup_call EXCEPT !.at = "return", !.wrote = TRUE,
                                                          !.returned = built.returned,
                                                          !.raised = built.raised ]
    /\ pc' = "idle"
    /\ UNCHANGED << connections, at_date, todo, key, seed, current, upstream, downstream, step,
                    part_types_found, hookup_dict, entries >>
    /\ UNCHANGED cm_hash_time
    /\ UNCHANGED << sysdef_vars, repeat_vars, extra_vars >>

CacheInit ==
    /\ \E S \in SUBSET cache_rows :
          /\ Cardinality(S) <= MaxCacheConns
          /\ connections = rows_of(S, 1)
    /\ at_date \in cache_dates
    /\ pc = "idle"
    /\ todo = << >>
    /\ key = [k |-> "", pol |-> ""]
    /\ seed = [part |-> "", rev |-> "", pol |-> ""]
    /\ current = [direction |-> "", part |-> "", rev |-> ""]
    /\ upstream = << >>
    /\ downstream = << >>
    /\ step = NoStep
    /\ part_types_found = << >>
    /\ hookup_dict = __get_empty_hookup_dict
    /\ entries = << >>
    /\ this_hookup_type = ""
    /\ pind = << >>
    /\ sysdef_call = NoCall
    /\ earlier = << >>
    /\ queries = 0
    /\ cache_file = NoFile
    /\ cached_hookup_dict = NoDict
    /\ cm_hash_time = 60
    /\ now = 60
    /\ written_under = None
    /\ get_hookup_call = NoGet
    /\ NoExtra

CacheNext ==
    \/ \E new_at_date \in cache_dates : Hookup(new_at_date)
    \/ \E t \in cache_times : add_cm_version(t)
    \/ \E scope \in scopes, exact_match \in BOOLEAN, show_levels \in BOOLEAN, force_new \in BOOLEAN :
          get_hookup(scope, exact_match, show_levels, force_new)
    \/ __set_hookup_cache
    \/ __follow_hookup_stream
    \/ __recursive_go
    \/ follow_hookup_stream_return
    \/ get_hookup_return
    \/ \E t \in cache_times : __write_hookup_cache_to_file(t)

CacheSpec == CacheInit /\ [][CacheNext]_vars

---------------------------------------------------------------------------
\* The cache file under several processes: Hookup objects of different
\* processes write it (__write_hookup_cache_to_file) and read it
\* (__read_hookup_cache_from_file) through their own open files, one call of
\* np.save or np.load at a time.  Every item takes the same room in the file.

\* the items of the file in the order they are saved
npy_items == <<"at_date", "hookup_list_to_cache", "cached_hookup_dict", "part_type_cache">>

\* the processes that write the file once and those that read it once
cache_writers == {"w1", "w2"}
cache_readers == {"r1"}

\* room of the file no item was written to
Hole == [by |-> "", item |-> ""]
Closed == [at |-> "closed", pos |-> 0, loaded |-> << >>]

\* the file after a write of v at item position pos
written(file, pos, v) ==
    [ i \in 1..(IF pos > Len(file) THEN pos ELSE Len(file)) |->
        IF i = pos THEN v ELSE IF i <= Len(file) THEN file[i] ELSE Hole ]

\* open(self.hookup_cache_file, 'wb'): the file is created or cut to nothing
open_wb(w) ==
    /\ handle[w].at = "closed"
    /\ npy' = << >>
    /\ handle' = [ handle EXCEPT ![w] = [at |-> "open", pos |-> 1, loaded |-> << >>] ]
    /\ UNCHANGED beyond_file

\* np.save(f, ...) of the next item
np_save(w) ==
    /\ handle[w].at = "open"
    /\ handle[w].pos <= Len(npy_items)
    /\ npy' = written(npy, handle[w].pos, [by |-> w, item |-> npy_items[handle[w].pos]])
    /\ handle' = [ handle EXCEPT ![w].pos = @ + 1 ]
    /\ UNCHANGED beyond_file

\* the end of the with block of a write or of a read
close(p) ==
    /\ handle[p].at = "open"
    /\ handle[p].pos = Len(npy_items) + 1
    /\ handle' = [ handle EXCEPT ![p].at = "done" ]
    /\ UNCHANGED npy
    /\ UNCHANGED beyond_file

\* open(self.hookup_cache_file, 'rb') once the file is there
open_rb(r) ==
    /\ handle[r].at = "closed"
    /\ \E w \in cache_writers : handle[w].at # "closed"
    /\ handle' = [ handle EXCEPT ![r] = [at |-> "open", pos |-> 1, loaded |-> << >>] ]
    /\ UNCHANGED npy
    /\ UNCHANGED beyond_file

\* np.load(f) of the next item: it raises where the file ends or holds no item
np_load(r) ==
    /\ handle[r].at = "open"
    /\ handle[r].pos <= Len(npy_items)
    /\ IF handle[r].pos > Len(npy) \/ npy[handle[r].pos] = Hole
       THEN handle' = [ handle EXCEPT ![r].at = "error" ]
       ELSE handle' = [ handle EXCEPT ![r].loaded = Append(@, npy[handle[r].pos]),
                                      ![r].pos = @ + 1 ]
    /\ UNCHANGED npy
    /\ UNCHANGED beyond_file

FileInit ==
    /\ connections = << >>
    /\ at_date = 0
    /\ NoQuery
    /\ NoSysdef
    /\ NoCache
    /\ NoSharing
    /\ NoRevisions
    /\ NoObjects
    /\ NoEntryCalls
    /\ npy = << >>
    /\ handle = [ p \in cache_writers \cup cache_readers |-> Closed ]

FileNext ==
    \/ \E w \in cache_writers : open_wb(w)
    \/ \E w \in cache_writers : np_save(w)
    \/ \E p \in cache_writers \cup cache_readers : close(p)
    \/ \E r \in cache_readers : open_rb(r)
    \/ \E r \in cache_readers : np_load(r)

FileSpec == FileInit /\ [][FileNext]_vars

---------------------------------------------------------------------------
\* Two queries that share the module cm_sysdef

sharing_queries == {"q1", "q2"}
\* the parts the two queries are for
shared_seeds == {"FDV1", "CRF1", "RI1E"}

NoShare == [ part |-> "", at |-> "new", pols |-> [kind |-> "None", value |-> << >>],
             own |-> [this_hookup_type |-> "", pind |-> << >>],
             used |-> [this_hookup_type |-> "", pind |-> << >>],
             result |-> NoConn, raised |-> "" ]

\* setup(part, port_query) called by query q: the hookup type and the
\* polarization indices go to the globals of the module, which the other query
\* reads and writes too.
setup_by(q, port_query) ==
    /\ query_of[q].at = "new"
    /\ LET part == sysdef_parts[query_of[q].part]
           hookup_type == find_hookup_type(part.part_type, "")
       IN  /\ hookup_type # "ValueError"
           /\ this_hookup_type' = hookup_type
           /\ pind' = pind_of(pind, hookup_type)
           /\ query_of' = [ query_of EXCEPT
                              ![q].at = "setup",
                              ![q].pols = setup_return(hookup_type, part, port_query),
                              ![q].own = [this_hookup_type |-> hookup_type,
                                          pind |-> pind_of(pind, hookup_type)] ]
    /\ UNCHANGED sysdef_call
    /\ UNCHANGED beyond_sysdef

\* next_connection(conn_options, cur, A, B) called by query q for its part: it
\* reads the globals as the last setup of either query left them.
next_connection_by(q, cur) ==
    /\ query_of[q].at = "setup"
    /\ \E conn_options \in option_lists(incident_rows(query_of[q].part, cur.direction)) :
          LET A == sysdef_parts[query_of[q].part]
              B == B_of(conn_options, cur.direction)
              known == A.part_type \in DOMAIN port_def[this_hookup_type]
              result == IF known THEN next_connection(conn_options, cur, A, B) ELSE NoConn
              raised == IF known THEN "" ELSE "KeyError"
          IN  /\ query_of' = [ query_of EXCEPT
                                 ![q].at = "called",
                                 ![q].used = [this_hookup_type |-> this_hookup_type,
                                              pind |-> pind],
                                 ![q].result = result,
                                 ![q].raised = raised ]
    /\ UNCHANGED << this_hookup_type, pind, sysdef_call >>
    /\ UNCHANGED beyond_sysdef

SharingInit ==
    /\ connections = << >>
    /\ at_date = 0
    /\ NoQuery
    /\ NoSysdef
    /\ NoCache
    /\ NoFileAccess
    /\ NoRevisions
    /\ NoObjects
    /\ NoEntryCalls
    /\ query_of \in [ sharing_queries -> { [ NoShare EXCEPT !.part = hpn ] : hpn \in shared_seeds } ]

SharingNext ==
    \/ \E q \in sharing_queries, port_query \in sysdef_port_queries :
          setup_by(q, port_query)
    \/ \E q \in sharing_queries, direction \in {"up", "down"},
          port \in sysdef_ports, pol \in {"e", "n"} :
          next_connection_by(q, [direction |-> direction, pol |-> pol, port |-> port])

SharingSpec == SharingInit /\ [][SharingNext]_vars

---------------------------------------------------------------------------
\* The revisions of a part: cm_revisions and the overlap check of cm_health

MaxRevs == 3

\* the revision identifiers, in the order sorted() gives them
rev_order == <<"A", "B", "Q", "Z">>
\* the windows [started, ended] of the revisions
rev_windows == { <<100, 200>>, <<150, 300>>, <<200, 300>>, <<100, None>>, <<250, None>> }
rev_types == {"LAST", "ACTIVE", "ALL", "A", "q", "active"}
rev_dates == {None, 150, 250}
\* cm_utils._get_astropytime('>') and the date of cm_utils.get_stopdate(None): after every given time
far_future == 100000

Namespace(row) == [hpn |-> "test_part", rev |-> row.rev, started |-> row.started, ended |-> row.ended]

\* cm_utils.get_stopdate: a null stop date stands for a date in the future
get_stopdate(stop_date) == IF stop_date = None THEN far_future ELSE stop_date

\* the index pairs of two nested loops over n items, the outer loop first
index_pairs(n) == [ k \in 1..(n * n) |-> << ((k - 1) \div n) + 1, ((k - 1) % n) + 1 >> ]

\* cm_health.check_for_overlap with >= for >
check_for_overlap_closed(interval) ==
    LET given == { x \in { interval[1][1], interval[1][2], interval[2][1], interval[2][2] } :
                     x # None }
        maxx == (CHOOSE x \in given : \A y \in given : y <= x) + 100
        high(ival) == IF ival[2] = None THEN maxx ELSE ival[2]
    IN  high(interval[1]) >= interval[2][1] /\ high(interval[2]) >= interval[1][1]

\* cm_health.check_for_overlap
check_for_overlap(interval) ==
    LET given == { x \in { interval[1][1], interval[1][2], interval[2][1], interval[2][2] } :
                     x # None }
        maxx == (CHOOSE x \in given : \A y \in given : y <= x) + 100
        high(ival) == IF ival[2] = None THEN maxx ELSE ival[2]
    IN  high(interval[1]) > interval[2][1] /\ high(interval[2]) > interval[1][1]

\* cm_revisions.get_all_revisions: the revisions sorted by identifier
get_all_revisions(revisions) ==
    LET sort_rev == SelectSeq(rev_order,
                        LAMBDA n : \E i \in 1..Len(revisions) : revisions[i].rev = n)
    IN  [ k \in 1..Len(sort_rev) |->
            Namespace(revisions[CHOOSE i \in 1..Len(revisions) : revisions[i].rev = sort_rev[k]]) ]

\* cm_health.check_part_for_overlapping_revisions
cm_health_check_part_for_overlapping_revisions(part_revs) ==
    LET revisions == get_all_revisions(part_revs)
        intervals(i, j) == << << revisions[i].started, get_stopdate(revisions[i].ended) >>,
                              << revisions[j].started, get_stopdate(revisions[j].ended) >> >>
        found == SelectSeq(index_pairs(Len(revisions)),
                     LAMBDA ij : ij[2] < ij[1] /\ check_for_overlap(intervals(ij[1], ij[2])))
        overlap == [ k \in 1..Len(found) |-> << revisions[found[k][1]], revisions[found[k][2]] >> ]
    IN  [ returned |-> overlap, warned |-> Len(overlap) > 0, raised |-> "" ]

\* cm_revisions.check_part_for_overlapping_revisions.  An open revision that is
\* the earlier one of a pair gets the far future for its end; a pair is listed
\* when the later one starts after the earlier one has ended; show_revisions
\* takes one argument and is called with two.
cm_revisions_check_part_for_overlapping_revisions(part_revs) ==
    LET sorted == get_all_revisions(part_revs)
        first_one(i, j) == IF sorted[i].started <= sorted[j].started THEN i ELSE j
        second_one(i, j) == IF sorted[i].started > sorted[j].started THEN i ELSE j
        revisions == [ k \in 1..Len(sorted) |->
                         IF /\ sorted[k].ended = None
                            /\ \E l \in 1..Len(sorted) :
                                  l # k /\ first_one(IF k < l THEN k ELSE l, IF k < l THEN l ELSE k) = k
                         THEN [ sorted[k] EXCEPT !.ended = far_future ]
                         ELSE sorted[k] ]
        found == SelectSeq(index_pairs(Len(revisions)),
                     LAMBDA ij : /\ ij[1] < ij[2]
                                 /\ revisions[second_one(ij[1], ij[2])].started
                                       > get_stopdate(revisions[first_one(ij[1], ij[2])].ended))
        overlap == [ k \in 1..Len(found) |-> << revisions[found[k][1]], revisions[found[k][2]] >> ]
    IN  IF Len(overlap) > 0
        THEN [ returned |-> << >>, warned |-> FALSE, raised |-> "TypeError" ]
        ELSE [ returned |-> overlap, warned |-> FALSE, raised |-> "" ]

\* cm_revisions.get_last_revision returning the first open revision only
get_last_revision_one(revisions) ==
    LET no_end == SelectSeq(revisions, LAMBDA r : r.ended = None)
        latest == CHOOSE i \in 1..Len(revisions) :
                     /\ \A j \in 1..Len(revisions) : revisions[j].ended <= revisions[i].ended
                     /\ \A j \in 1..(i - 1) : revisions[j].ended < revisions[i].ended
    IN  IF Len(revisions) = 0 THEN [ returned |-> << >>, warned |-> FALSE, raised |-> "" ]
        ELSE IF Len(no_end) > 0
        THEN [ returned |-> << Namespace(no_end[1]) >>, warned |-> FALSE, raised |-> "" ]
        ELSE [ returned |-> << Namespace(revisions[latest]) >>, warned |-> FALSE, raised |-> "" ]

\* cm_revisions.get_last_revision: every open revision if there is one, else
\* the first in the order of the dict of those that ended last
get_last_revision(revisions) ==
    LET no_end == SelectSeq(revisions, LAMBDA r : r.ended = None)
        latest == CHOOSE i \in 1..Len(revisions) :
                     /\ \A j \in 1..Len(revisions) : revisions[j].ended <= revisions[i].ended
                     /\ \A j \in 1..(i - 1) : revisions[j].ended < revisions[i].ended
    IN  IF Len(revisions) = 0 THEN [ returned |-> << >>, warned |-> FALSE, raised |-> "" ]
        ELSE IF Len(no_end) > 0
        THEN [ returned |-> [ k \in 1..Len(no_end) |-> Namespace(no_end[k]) ],
               warned |-> Len(no_end) > 1, raised |-> "" ]
        ELSE [ returned |-> << Namespace(revisions[latest]) >>, warned |-> FALSE, raised |-> "" ]

\* cm_revisions.get_particular_revision
get_particular_revision(revisions, rq) ==
    [ returned |-> SelectSeq(get_all_revisions(revisions), LAMBDA r : r.rev = rq),
      warned |-> FALSE, raised |-> "" ]

\* cm_revisions.get_active_revision: with more than one active revision the
\* warning is asked of the name `warning`, which the module does not define
get_active_revision(revisions, at) ==
    LET return_active == SelectSeq(get_all_revisions(revisions),
                             LAMBDA r : _is_active(at, r.started, r.ended))
    IN  IF Len(return_active) > 1
        THEN [ returned |-> << >>, warned |-> FALSE, raised |-> "NameError" ]
        ELSE [ returned |-> return_active, warned |-> FALSE, raised |-> "" ]

\* cm_revisions.get_revisions_of_type for the types LAST, ACTIVE, ALL and a
\* particular revision
get_revisions_of_type(revisions, rev_type, at) ==
    LET rq == upper(rev_type)
    IN  IF rq = "LAST" THEN get_last_revision(revisions)
        ELSE IF rq = "ACTIVE"
        THEN IF at = None THEN [ returned |-> << >>, warned |-> FALSE, raised |-> "Exception" ]
             ELSE get_active_revision(revisions, at)
        ELSE IF rq = "ALL"
        THEN [ returned |-> get_all_revisions(revisions), warned |-> FALSE, raised |-> "" ]
        ELSE get_particular_revision(revisions, rq)

\* A call of cm_health.check_for_overlap on the windows of two revisions.  No
\* call changes the revisions of the part, so the calls are taken one for each
\* table of revisions.
call_check_for_overlap(i, j) ==
    /\ rev_call.op = ""
    /\ LET interval == << << part_revisions[i].started, part_revisions[i].ended >>,
                          << part_revisions[j].started, part_revisions[j].ended >> >>
       IN  rev_call' = [ NoRevCall EXCEPT !.op = "check_for_overlap", !.interval = interval,
                                          !.truth = check_for_overlap(interval) ]
    /\ UNCHANGED part_revisions
    /\ UNCHANGED beyond_revisions

\* A call of check_part_for_overlapping_revisions of the module named.
call_check_part_for_overlapping_revisions(module) ==
    /\ rev_call.op = ""
    /\ LET r == IF module = "cm_health"
                THEN cm_health_check_part_for_overlapping_revisions(part_revisions)
                ELSE cm_revisions_check_part_for_overlapping_revisions(part_revisions)
       IN  rev_call' = [ NoRevCall EXCEPT !.op = module, !.returned = r.returned,
                                          !.warned = r.warned, !.raised = r.raised ]
    /\ UNCHANGED part_revisions
    /\ UNCHANGED beyond_revisions

\* A call of cm_revisions.get_revisions_of_type.
call_get_revisions_of_type(rev_type, at) ==
    /\ rev_call.op = ""
    /\ LET r == get_revisions_of_type(part_revisions, rev_type, at)
       IN  rev_call' = [ NoRevCall EXCEPT !.op = "get_revisions_of_type", !.rev_type = rev_type,
                                          !.at_date = at, !.returned = r.returned,
                                          !.warned = r.warned, !.raised = r.raised ]
    /\ UNCHANGED part_revisions
    /\ UNCHANGED beyond_revisions

RevisionInit ==
    /\ connections = << >>
    /\ at_date = 0
    /\ NoQuery
    /\ NoSysdef
    /\ NoCache
    /\ NoFileAccess
    /\ NoSharing
    /\ NoObjects
    /\ NoEntryCalls
    /\ rev_call = NoRevCall
    /\ \E n \in 0..MaxRevs :
          \E names \in [1..n -> Elems(rev_order)], windows \in [1..n -> rev_windows] :
             /\ \A a, b \in 1..n : a # b => names[a] # names[b]
             /\ part_revisions = [ k \in 1..n |-> [ rev |-> names[k], started |-> windows[k][1],
                                                    ended |-> windows[k][2] ] ]

RevisionNext ==
    \/ \E i \in 1..Len(part_revisions), j \in 1..Len(part_revisions) :
          call_check_for_overlap(i, j)
    \/ \E module \in {"cm_health", "cm_revisions"} :
          call_check_part_for_overlapping_revisions(module)
    \/ \E rev_type \in rev_types, at \in rev_dates :
          call_get_revisions_of_type(rev_type, at)

RevisionSpec == RevisionInit /\ [][RevisionNext]_vars

---------------------------------------------------------------------------
\* Hookup objects that live side by side over one cache file

hookup_objects == {"h1", "h2"}
object_dates == {100, 101, 1000}
NoObject == [at_date |-> None, cached_hookup_dict |-> NoDict, held_since |-> None]

\* what the calls of the objects leave alone besides the queries' own state
beyond_objects == << sysdef_vars, repeat_vars, file_vars, conc_vars, rev_vars, entry_vars >>

\* The next call is one of object h: its at_date and its table come to stand
\* where the methods read them, those of the object that ran before are kept.
run(h) ==
    /\ pc = "idle"
    /\ get_hookup_call.at # "__set_hookup_cache"
    /\ h # running
    /\ parked' = [ parked EXCEPT ![running] = [ at_date |-> at_date,
                                               cached_hookup_dict |-> cached_hookup_dict,
                                               held_since |-> held_since ],
                                 ![h] = NoObject ]
    /\ running' = h
    /\ at_date' = parked[h].at_date
    /\ cached_hookup_dict' = parked[h].cached_hookup_dict
    /\ held_since' = parked[h].held_since
    /\ get_hookup_call' = NoGet
    /\ UNCHANGED << connections, pc, todo, key, seed, current, upstream, downstream, step,
                    part_types_found, hookup_dict, entries >>
    /\ UNCHANGED << cache_file, cm_hash_time, now, written_under >>
    /\ UNCHANGED beyond_objects

\* get_hookup of the running object, without force_specific, exact_match and
\* show_levels, up to the recomputation if there is one.  A table read from
\* the file was computed when the file was written.
get_hookup_of_running(scope, force_new) ==
    /\ pc = "idle"
    /\ get_hookup_call.at # "__set_hookup_cache"
    /\ LET call == [ NoGet EXCEPT !.hpn_list = scope, !.force_new = force_new,
                                  !.seen = seen_now ]
       IN  IF force_new \/ ~__check_hookup_cache_file
           THEN /\ get_hookup_call' = [ call EXCEPT !.at = "__set_hookup_cache", !.recomputed = TRUE ]
                /\ UNCHANGED << cached_hookup_dict, held_since >>
           ELSE LET cached == IF cached_hookup_dict = NoDict THEN cache_file.hookup_dict
                                                             ELSE cached_hookup_dict
                    built == build_hookup_dict(cached, scope, FALSE, FALSE)
                IN  /\ cached_hookup_dict' = built.cached
                    /\ held_since' = IF cached_hookup_dict = NoDict THEN cache_file.st_mtime
                                                                    ELSE held_since
                    /\ get_hookup_call' = [ call EXCEPT !.at = "return",
                                                        !.returned = built.returned,
                                                        !.raised = built.raised ]
    /\ UNCHANGED << cache_file, cm_hash_time, now, written_under >>
    /\ UNCHANGED << running, parked >>
    /\ UNCHANGED hookup_vars
    /\ UNCHANGED beyond_objects

\* The recomputation by the running object is through: its table is the new
\* one, computed and written to the file at time t.
__write_hookup_cache_to_file_of_running(t) ==
    /\ pc = "done"
    /\ get_hookup_call.at = "__set_hookup_cache"
    /\ t >= now
    /\ cache_file' = [ exists |-> TRUE, st_mtime |-> t, at_date |-> at_date,
                       hookup_list |-> hookup_list_to_cache, hookup_dict |-> hookup_dict ]
    /\ now' = t
    /\ written_under' = cm_hash_time
    /\ held_since' = t
    /\ LET built == build_hookup_dict(hookup_dict, get_hookup_call.hpn_list, FALSE, FALSE)
       IN  /\ cached_hookup_dict' = built.cached
           /\ get_hookup_call' = [ get_hookup_call EXCEPT !.at = "return", !.wrote = TRUE,
                                                          !.returned = built.returned,
                                                          !.raised = built.raised ]
    /\ pc' = "idle"
    /\ UNCHANGED << connections, at_date, todo, key, seed, current, upstream, downstream, step,
                    part_types_found, hookup_dict, entries >>
    /\ UNCHANGED cm_hash_time
    /\ UNCHANGED << running, parked >>
    /\ UNCHANGED beyond_objects

ObjectsInit ==
    /\ \E S \in SUBSET cache_rows :
          /\ Cardinality(S) <= MaxCacheConns
          /\ connections = rows_of(S, 1)
    /\ at_date \in object_dates
    /\ NoQuery
    /\ NoSysdef
    /\ NoFileAccess
    /\ NoSharing
    /\ NoRevisions
    /\ NoEntryCalls
    /\ cache_file = NoFile
    /\ cached_hookup_dict = NoDict
    /\ cm_hash_time = 60
    /\ now = 60
    /\ written_under = None
    /\ get_hookup_call = NoGet
    /\ running = "h1"
    /\ held_since = None
    /\ parked \in [ hookup_objects -> { [ NoObject EXCEPT !.at_date = d ] : d \in object_dates \cup {None} } ]
    /\ \A h \in hookup_objects : parked[h].at_date = None <=> h = running

ObjectsNext ==
    \/ \E h \in hookup_objects : run(h)
    \/ \E t \in cache_times : add_cm_version(t)
    \/ \E scope \in scopes, force_new \in BOOLEAN : get_hookup_of_running(scope, force_new)
    \/ __set_hookup_cache
    \/ __follow_hookup_stream
    \/ __recursive_go
    \/ follow_hookup_stream_return
    \/ get_hookup_return
    \/ \E t \in cache_times : __write_hookup_cache_to_file_of_running(t)

ObjectsSpec == ObjectsInit /\ [][ObjectsNext]_vars

---------------------------------------------------------------------------
\* The methods of a HookupEntry, called on the entries of a query

MaxEntryConns == 3

\* the rows and as-of dates of the queries whose entries are asked
entry_rows == {2, 3, 5, 6, 11}
entry_dates == {0, 50}
entry_part_types == {"a", "b", "c", "d", "x"}

\* the columns of a connection, in the order of the table
connection_columns ==
    << "upstream_part", "up_part_rev", "upstream_output_port", "downstream_part",
       "down_part_rev", "downstream_input_port", "start_gpstime", "stop_gpstime" >>

\* Connections._to_dict: the dict of the columns of a connection, as its items
connection_to_dict(conn) ==
    [ i \in 1..Len(connection_columns) |-> << connection_columns[i], conn[connection_columns[i]] >> ]

\* partconn.get_connection_from_dict: the connection with the columns of the dict
get_connection_from_dict(conn_dict) ==
    [ column \in { conn_dict[i][1] : i \in 1..Len(conn_dict) } |->
        conn_dict[CHOOSE i \in 1..Len(conn_dict) : conn_dict[i][1] = column][2] ]

\* HookupEntry._to_dict with the connection lists turned round
_to_dict_turned(self) ==
    [ entry_key |-> self.entry_key,
      hookup |-> [ port \in DOMAIN self.hookup |->
                     [ i \in 1..Len(self.hookup[port]) |->
                         connection_to_dict(self.hookup[port][Len(self.hookup[port]) + 1 - i]) ] ],
      fully_connected |-> self.fully_connected,
      hookup_type |-> self.hookup_type, columns |-> self.columns,
      timing |-> self.timing, sysdef |-> "sysdef" ]

\* HookupEntry._to_dict
_to_dict(self) ==
    [ entry_key |-> self.entry_key,
      hookup |-> [ port \in DOMAIN self.hookup |->
                     [ i \in 1..Len(self.hookup[port]) |->
                         connection_to_dict(self.hookup[port][i]) ] ],
      fully_connected |-> self.fully_connected,
      hookup_type |-> self.hookup_type, columns |-> self.columns,
      timing |-> self.timing, sysdef |-> "sysdef" ]

\* HookupEntry.__init__(entry_key, sysdef, input_dict); "None" and NoDict are None
HookupEntry__init__(entry_key, sysdef, input_dict) ==
    IF input_dict # NoDict
    THEN IF entry_key # "None" \/ sysdef # "None"
         THEN [ entry |-> NoDict, raised |-> "ValueError" ]
         ELSE [ entry |->
                  [ entry_key |-> input_dict.entry_key,
                    hookup |-> [ port \in DOMAIN input_dict.hookup |->
                                   [ i \in 1..Len(input_dict.hookup[port]) |->
                                       get_connection_from_dict(input_dict.hookup[port][i]) ] ],
                    fully_connected |-> input_dict.fully_connected,
                    hookup_type |-> input_dict.hookup_type,
                    columns |-> input_dict.columns,
                    timing |-> input_dict.timing ],
                raised |-> "" ]
    ELSE IF entry_key = "None" \/ sysdef = "None"
         THEN [ entry |-> NoDict, raised |-> "ValueError" ]
         ELSE [ entry |-> HookupEntry(entry_key), raised |-> "" ]

\* names.index(x) of a list that holds x, counted from 0
index(names, x) == (CHOOSE i \in 1..Len(names) : names[i] = x /\ \A j \in 1..(i - 1) : names[j] # x) - 1

\* the place of seq[i] as Python counts it, from 0 or from the end; 0 for an IndexError
subscript(seq, i) ==
    IF i >= 0 THEN (IF i < Len(seq) THEN i + 1 ELSE 0)
    ELSE (IF Len(seq) + i >= 0 THEN Len(seq) + i + 1 ELSE 0)

\* the part get_part_in_hookup_from_type finds for one port; "None" is None
part_in_port(self, port, part_type, iend) ==
    LET names == self.columns[port]
        part_ind == index(names, part_type)
        is_last_one == part_ind = Len(names) - iend
        at == IF is_last_one THEN subscript(self.hookup[port], part_ind - 1)
                             ELSE subscript(self.hookup[port], part_ind)
    IN  IF ~In(part_type, names) THEN "None"
        ELSE IF at = 0 THEN "IndexError"
        ELSE IF is_last_one THEN self.hookup[port][at].downstream_part
        ELSE self.hookup[port][at].upstream_part

\* HookupEntry.get_part_in_hookup_from_type that takes every column for a part type
get_part_in_hookup_from_type_all_columns(self, part_type) ==
    LET parts == [ port \in DOMAIN self.columns |-> part_in_port(self, port, part_type, 1) ]
    IN  IF \E port \in DOMAIN parts : parts[port] = "IndexError"
        THEN [ parts |-> << >>, raised |-> "IndexError" ]
        ELSE [ parts |-> parts, raised |-> "" ]

\* HookupEntry.get_part_in_hookup_from_type(part_type) without revisions and ports
get_part_in_hookup_from_type(self, part_type) ==
    LET iend(port) == 1 + Cardinality({ ec \in {"start", "stop"} : In(ec, self.columns[port]) })
        parts == [ port \in DOMAIN self.columns |-> part_in_port(self, port, part_type, iend(port)) ]
    IN  IF \E port \in DOMAIN parts : parts[port] = "IndexError"
        THEN [ parts |-> << >>, raised |-> "IndexError" ]
        ELSE [ parts |-> parts, raised |-> "" ]

\* A call of get_part_in_hookup_from_type on the entry of key k.
call_get_part_in_hookup_from_type(k, part_type) ==
    /\ pc = "entries"
    /\ entry_call.op = ""
    /\ LET r == get_part_in_hookup_from_type(entries[k], part_type)
       IN  entry_call' = [ NoEntryCall EXCEPT !.op = "get_part_in_hookup_from_type", !.key = k,
                                              !.part_type = part_type,
                                              !.returned = r.parts, !.raised = r.raised ]
    /\ UNCHANGED beyond_entry

\* HookupEntry(entry_key, sysdef, input_dict) where the dict, if there is one,
\* is that of the entry of key k.
call_HookupEntry(k, entry_key, sysdef, with_dict) ==
    /\ pc = "entries"
    /\ entry_call.op = ""
    /\ LET input_dict == IF with_dict THEN _to_dict(entries[k]) ELSE NoDict
           r == HookupEntry__init__(entry_key, sysdef, input_dict)
       IN  entry_call' = [ NoEntryCall EXCEPT !.op = "HookupEntry", !.key = k,
                                              !.entry_key = entry_key, !.sysdef = sysdef,
                                              !.input_dict = input_dict,
                                              !.entry = r.entry, !.raised = r.raised ]
    /\ UNCHANGED beyond_entry

EntryInit ==
    /\ \E S \in SUBSET entry_rows :
          /\ Cardinality(S) <= MaxEntryConns
          /\ connections = rows_of(S, 1)
    /\ at_date \in entry_dates
    /\ NoQuery
    /\ NoSysdef
    /\ NoCache
    /\ NoExtra

EntryNext ==
    \/ \E hpn_list \in hpn_lists, port_query \in port_queries : __get_hookup(hpn_list, port_query)
    \/ __follow_hookup_stream
    \/ __recursive_go
    \/ follow_hookup_stream_return
    \/ get_hookup_return
    \/ make_entries
    \/ \E k \in DOMAIN entries, part_type \in entry_part_types :
          call_get_part_in_hookup_from_type(k, part_type)
    \/ \E k \in DOMAIN entries, entry_key \in {"None", "K1:A"}, sysdef \in {"None", "sysdef"},
          with_dict \in BOOLEAN :
          call_HookupEntry(k, entry_key, sysdef, with_dict)

EntrySpec == EntryInit /\ [][EntryNext]_vars

---------------------------------------------------------------------------
\* Vocabulary of the properties

\* start <= as-of and (stop is null or stop >= as-of)
ActiveAt(c, t) == c.start_gpstime <= t /\ (c.stop_gpstime = None \/ c.stop_gpstime >= t)

\* c is incident on (part, rev) on the side a walk in `direction` looks at
IncidentOn(c, direction, part, rev) ==
    IF direction = "up"
    THEN c.downstream_part = part /\ c.down_part_rev = rev
    ELSE c.upstream_part = part /\ c.up_part_rev = rev

\* the part and the port on the far side of c for a walk in `direction`
NextPart(c, direction) == IF direction = "up" THEN c.upstream_part ELSE c.downstream_part
NextPort(c, direction) == IF direction = "up" THEN c.upstream_output_port ELSE c.downstream_input_port

\* every (part key, pol) a chain is stored for
StoredKeys == { kp \in (DOMAIN hookup_dict.hookup) \X Elems(both_pols) :
                  kp[2] \in DOMAIN hookup_dict.hookup[kp[1]] }
StoredChain(kp) == hookup_dict.hookup[kp[1]][kp[2]]

\* every connection of a leg under way or of a stored chain
ChainConns == Elems(upstream) \cup Elems(downstream)
                \cup UNION { Elems(StoredChain(kp)) : kp \in StoredKeys }

\* the query has returned
Returned == pc \in {"done", "entries"}

\* the fully-connected flag of a stored chain, as is_fully_connected reads it
\* (a key without a flag counts as not fully connected)
FlagOf(kp) ==
    /\ kp[1] \in DOMAIN hookup_dict.fully_connected
    /\ hookup_dict.fully_connected[kp[1]][kp[2]]

---------------------------------------------------------------------------
\* C1: at every step of a traversal the candidates are exactly the rows incident
\* on the current (part, rev) with start <= as-of and (stop null or stop >= as-of),
\* so every connection of a chain is active at the as-of date, and a row with a
\* null stop is a candidate at every as-of date from its start on.
C1_CandidatesAreTheActiveRows ==
    /\ step # NoStep =>
         /\ \A c \in Elems(step.options) :
               /\ c \in Elems(connections)
               /\ IncidentOn(c, step.direction, step.part, step.rev)
               /\ ActiveAt(c, at_date)
         /\ \A c \in Elems(connections) :
               ( /\ IncidentOn(c, step.direction, step.part, step.rev)
                 /\ c.start_gpstime <= at_date
                 /\ (c.stop_gpstime = None \/ c.stop_gpstime >= at_date) )
               => c \in Elems(step.options)
    /\ \A c \in ChainConns : ActiveAt(c, at_date)

\* a chain found at the far-future date, through a row with a null stop
C1_Witness ==
    /\ Returned
    /\ at_date = 1000
    /\ \E kp \in StoredKeys : \E c \in Elems(StoredChain(kp)) : c.stop_gpstime = None
    /\ Len(connections) >= 2

\* C3 as stated: a lone candidate whose next-side port belongs to the other
\* polarization is rejected.
C3_LoneOtherPolRejected ==
    ( /\ step # NoStep
      /\ Len(step.options) = 1
      /\ first_char(NextPort(step.options[1], step.direction)) \in Elems(both_pols)
      /\ first_char(NextPort(step.options[1], step.direction)) # step.pol )
    => step.next_one = NoConn

\* C3 amended: a lone candidate is accepted unless the number of the part it
\* leads to starts with PAM and the leading character of its next-side port is
\* not the polarization character; led to any other part it is accepted whatever
\* its port.
C3_LoneRejectedOnlyAtPAM ==
    ( step # NoStep /\ Len(step.options) = 1 ) =>
        LET opc == step.options[1]
            rejected == /\ prefix(NextPart(opc, step.direction), 3) = "PAM"
                        /\ first_char(NextPort(opc, step.direction)) # step.pol
        IN  step.next_one = IF rejected THEN NoConn ELSE opc

\* a lone candidate to a PAM on the other polarization's port was rejected
C3_Witness ==
    /\ step # NoStep
    /\ Len(step.options) = 1
    /\ step.next_one = NoConn

\* the position of part type t in the path of epoch x (0 when it is not there)
PositionIn(x, t) ==
    IF In(t, full_connection_path[x])
    THEN CHOOSE p \in 1..Len(full_connection_path[x]) : full_connection_path[x][p] = t
    ELSE 0

TypeOf(hpn) == lower(parts_table[hpn].hptype)

\* C4: every accepted connection leads to a part whose type is one position
\* further along the path of an epoch (p+1 downstream, p-1 upstream), and no
\* chain holds a part type twice.
C4_PositionsAdvanceByOne ==
    /\ ( step # NoStep /\ step.next_one # NoConn ) =>
          \E x \in Elems(test_checking_order) :
             LET here == PositionIn(x, TypeOf(step.part))
                 there == PositionIn(x, TypeOf(NextPart(step.next_one, step.direction)))
             IN  /\ here # 0
                 /\ there # 0
                 /\ there = here + (IF step.direction = "up" THEN 0 - 1 ELSE 1)
    /\ \A kp \in StoredKeys :
          \A i, j \in 1..Len(StoredChain(kp)) :
             i # j => TypeOf(StoredChain(kp)[i].upstream_part) # TypeOf(StoredChain(kp)[j].upstream_part)

\* the epochs whose path holds the type of the seed
SeedEpochs == { x \in Elems(test_checking_order) : In(TypeOf(seed.part), full_connection_path[x]) }

\* C5: the traversal of a leg ends for every set of rows, cycles included, and a
\* leg never has more steps than the path of the seed's epoch is long.
C5_LegsAreBoundedByThePath ==
    /\ pc # "RecursionError"
    /\ (seed.part # "" /\ SeedEpochs # {}) =>
          \E x \in SeedEpochs :
             /\ Len(upstream) <= Len(full_connection_path[x])
             /\ Len(downstream) <= Len(full_connection_path[x])

\* One of several candidates satisfies the rule that breaks the tie: its
\* next-side port, when it names a polarization (by its leading character, or for
\* a port 'a' or 'b' by the last character of the next part), names this one.
SatisfiesTieBreak(c, direction, pol) ==
    LET port == lower(NextPort(c, direction))
    IN  IF port \in {"a", "b"} THEN lower(last_char(NextPart(c, direction))) = pol
        ELSE IF first_char(port) \in Elems(both_pols) THEN first_char(port) = pol
        ELSE TRUE

\* the length a chain has when it spans the whole path of the epoch found
\* (-1, which no chain has, when no epoch was found)
FullLengthOf(epoch) == IF epoch = "" THEN 0 - 1 ELSE Len(full_connection_path[epoch]) - 1

Contiguous(chain) ==
    \A i \in 1..(Len(chain) - 1) :
       /\ chain[i].downstream_part = chain[i + 1].upstream_part
       /\ chain[i].down_part_rev = chain[i + 1].up_part_rev

\* the part the chain was asked for is on the chain
Through(chain, k) ==
    \E i \in 1..Len(chain) :
       \/ chain[i].upstream_part \o ":" \o chain[i].up_part_rev = k
       \/ chain[i].downstream_part \o ":" \o chain[i].down_part_rev = k

\* C7: the chain of a seed is its upstream leg in reverse followed by its
\* downstream leg, so it runs in one piece from the array end to the correlator
\* end through the seed; it holds no connection of the walk of an earlier seed.
C7_ChainIsUpstreamReversedThenDownstream ==
    /\ (pc = "loop" /\ key.k # "") =>
          /\ Len(StoredChain(<<key.k, key.pol>>)) = Len(upstream) + Len(downstream)
          /\ \A i \in 1..Len(upstream) :
                StoredChain(<<key.k, key.pol>>)[i] = upstream[Len(upstream) + 1 - i]
          /\ \A i \in 1..Len(downstream) :
                StoredChain(<<key.k, key.pol>>)[Len(upstream) + i] = downstream[i]
    /\ \A kp \in StoredKeys :
          /\ Contiguous(StoredChain(kp))
          /\ StoredChain(kp) # << >> => Through(StoredChain(kp), kp[1])
    /\ pc = "collect" =>
          /\ upstream # << >> => upstream[1].downstream_part = seed.part
          /\ downstream # << >> => downstream[1].upstream_part = seed.part

\* the chain of the second seed of a batch has an upstream and a downstream leg
C7_Witness ==
    /\ pc = "loop"
    /\ Cardinality(DOMAIN hookup_dict.hookup) = 2
    /\ Len(upstream) >= 1
    /\ Len(downstream) >= 2
    /\ StoredChain(<<key.k, key.pol>>) # downstream

\* C8: a chain is fully connected exactly when an epoch was found and the chain
\* has one connection less than the path of the epoch has part types: with a path
\* of 4, chains of 0, 1 and 2 are not and a chain of 3 is; with no epoch no chain is.
C8_FullyConnectedIffPathLengthLessOne ==
    /\ Returned =>
          \A kp \in StoredKeys :
             FlagOf(kp) <=> ( /\ hookup_dict.parts_epoch.epoch # ""
                              /\ Len(StoredChain(kp)) =
                                   Len(full_connection_path[hookup_dict.parts_epoch.epoch]) - 1 )
    /\ pc = "entries" =>
          \A k \in DOMAIN entries : \A port \in DOMAIN entries[k].hookup :
             entries[k].fully_connected[port] <=>
                ( /\ entries[k].hookup_type[port] # ""
                  /\ Len(entries[k].hookup[port]) =
                       Len(full_connection_path[entries[k].hookup_type[port]]) - 1 )
    /\ ( Returned /\ Len(hookup_dict.parts_epoch.path) = 4 ) =>
          \A kp \in StoredKeys :
             /\ Len(StoredChain(kp)) \in {0, 1, 2} => ~FlagOf(kp)
             /\ Len(StoredChain(kp)) = 3 => FlagOf(kp)

\* under a path of 4 a chain of 3 is fully connected and a chain of 2 is not
C8_Witness ==
    /\ pc = "entries"
    /\ Len(hookup_dict.parts_epoch.path) = 4
    /\ \E kp \in StoredKeys : Len(StoredChain(kp)) = 3 /\ FlagOf(kp)
    /\ \E kp \in StoredKeys : Len(StoredChain(kp)) = 2 /\ ~FlagOf(kp)

\* the window of a chain: the latest start and the earliest stop that is not null
LatestStart(chain) ==
    CHOOSE t \in { c.start_gpstime : c \in Elems(chain) } :
       \A c \in Elems(chain) : c.start_gpstime <= t
Stops(chain) == { c.stop_gpstime : c \in Elems(chain) } \ {None}
EarliestStop(chain) ==
    IF Stops(chain) = {} THEN None
    ELSE CHOOSE t \in Stops(chain) : \A u \in Stops(chain) : t <= u

\* C9: the timing of a chain is [latest start, earliest stop that is not null]
\* over its connections, its stop null exactly when every stop is null: the
\* window is the intersection of the intervals of the connections.
C9_TimingIsTheIntersection ==
    /\ Returned =>
          \A kp \in StoredKeys :
             ( kp[1] \in DOMAIN hookup_dict.timing /\ StoredChain(kp) # << >> ) =>
                LET timing == hookup_dict.timing[kp[1]][kp[2]]
                    chain == StoredChain(kp)
                IN  /\ timing[1] = LatestStart(chain)
                    /\ timing[2] = EarliestStop(chain)
                    /\ timing[2] = None <=> \A c \in Elems(chain) : c.stop_gpstime = None
                    /\ \A t \in at_dates :
                          ( timing[1] <= t /\ (timing[2] = None \/ t <= timing[2]) )
                          <=> \A c \in Elems(chain) :
                                 c.start_gpstime <= t /\ (c.stop_gpstime = None \/ t <= c.stop_gpstime)
    /\ pc = "entries" =>
          \A k \in DOMAIN entries : \A port \in DOMAIN entries[k].hookup :
             entries[k].hookup[port] # << >> =>
                /\ entries[k].timing[port][1] = LatestStart(entries[k].hookup[port])
                /\ entries[k].timing[port][2] = EarliestStop(entries[k].hookup[port])

\* a chain whose connections start at different times, some with a stop, some without
C9_Witness ==
    /\ pc = "entries"
    /\ \E kp \in StoredKeys :
          /\ kp[1] \in DOMAIN hookup_dict.timing
          /\ hookup_dict.timing[kp[1]][kp[2]] = <<50, 100>>
          /\ \E c \in Elems(StoredChain(kp)) : c.stop_gpstime = None
          /\ \E c \in Elems(StoredChain(kp)) : c.start_gpstime = 0

\* the rows of the end-to-end scenario: A1:out1 -> B1:in1 over [0, 100] and
\* B1:out1 -> C1:in1 over [0, null)
E2E_rows == << conn_rows[1], conn_rows[2] >>

\* C10: with path [A, B, C] and the two rows A1:out1 -> B1:in1 [0, 100] and
\* B1:out1 -> C1:in1 [0, null), a query with seed A1 as of a date in [0, 100]
\* returns the chain [A1 -> B1, B1 -> C1], fully connected, with window [0, 100].
C10_EndToEnd ==
    ( /\ Returned
      /\ connections = E2E_rows
      /\ at_date \in {0, 50, 100}
      /\ "A1:A" \in DOMAIN hookup_dict.hookup )
    => /\ hookup_dict.parts_epoch.path = <<"a", "b", "c">>
       /\ \A pol \in DOMAIN hookup_dict.hookup["A1:A"] :
             /\ hookup_dict.hookup["A1:A"][pol] = E2E_rows
             /\ hookup_dict.fully_connected["A1:A"][pol] = TRUE
             /\ hookup_dict.timing["A1:A"][pol] = <<0, 100>>
       /\ pc = "entries" =>
             \A pol \in DOMAIN entries["A1:A"].hookup :
                /\ entries["A1:A"].hookup[pol] = E2E_rows
                /\ entries["A1:A"].fully_connected[pol] = TRUE
                /\ entries["A1:A"].timing[pol] = <<0, 100>>

\* the scenario ran to its result on the last day of the first row
C10_Witness ==
    /\ pc = "entries"
    /\ connections = E2E_rows
    /\ at_date = 100
    /\ DOMAIN hookup_dict.hookup = {"A1:A"}
    /\ DOMAIN hookup_dict.hookup["A1:A"] = {"e", "n"}
    /\ entries["A1:A"].fully_connected["e"]

\* Vocabulary of the claim on next_connection: a call of it that raised nothing
\* and whose next position is on the path
Called ==
    /\ sysdef_call.op = "next_connection"
    /\ sysdef_call.raised = ""
CallDirection == sysdef_call.current.direction
CallPath == full_connection_path[this_hookup_type]
CallPosition ==
    port_def[this_hookup_type][sysdef_parts[sysdef_call.A].part_type].position
      + (IF CallDirection = "up" THEN 0 - 1 ELSE 1)
OnThePath == Called /\ CallPosition >= 0 /\ CallPosition <= Len(CallPath) - 1
NextType == CallPath[CallPosition + 1]

\* the port groups the topology expects on the near side of the next part type,
\* and the one of the polarization of the call (the only one when there is one)
NextGroups ==
    IF CallDirection = "up" THEN port_def[this_hookup_type][NextType].down
    ELSE port_def[this_hookup_type][NextType].up
AllowedNextPorts ==
    IF Len(NextGroups) = 1 THEN Elems(NextGroups[1])
    ELSE Elems(NextGroups[(IF sysdef_call.current.pol = "e" THEN 0 ELSE 1) + 1])

\* the ports of candidate i as the rows give them
RowThisPort(i) ==
    IF CallDirection = "up" THEN sysdef_call.connection_options[i].downstream_input_port
    ELSE sysdef_call.connection_options[i].upstream_output_port
RowNextPort(i) ==
    IF CallDirection = "up" THEN sysdef_call.connection_options[i].upstream_output_port
    ELSE sysdef_call.connection_options[i].downstream_input_port
RowNextPart(i) ==
    IF CallDirection = "up" THEN sysdef_call.connection_options[i].upstream_part
    ELSE sysdef_call.connection_options[i].downstream_part

\* the label of a part type labeled with one polarization: the last character
\* of the part number, in front of the port
LabelOf(hpn) ==
    IF In(sysdef_parts[hpn].part_type, single_pol_labeled_parts[this_hookup_type])
    THEN lower(last_char(hpn)) ELSE ""
ThisPort(i) == LabelOf(sysdef_call.A) \o RowThisPort(i)
NextPort_(i) == LabelOf(RowNextPart(i)) \o RowNextPort(i)

Candidates == 1..Len(sysdef_call.connection_options)

\* the first candidate of a set of them, or no connection
FirstOf(I) ==
    IF I = {} THEN NoConn
    ELSE sysdef_call.connection_options[CHOOSE i \in I : \A j \in I : i <= j]

\* the winner of two passes: the first of I1, or only when I1 is empty the first of I2
TwoPasses(I1, I2) == IF I1 # {} THEN FirstOf(I1) ELSE FirstOf(I2)

C11_SameSeedSameChain ==
    \A kp \in StoredKeys :
       kp \in DOMAIN earlier => StoredChain(kp) = earlier[kp]

\* a seed was resolved a second time to a chain with an upstream and a
\* downstream part, after another seed was resolved in between
C11_Witness ==
    /\ Returned
    /\ queries = 1
    /\ <<"B1:A", "e">> \in StoredKeys
    /\ <<"B1:A", "e">> \in DOMAIN earlier
    /\ <<"A1:A", "e">> \in DOMAIN earlier
    /\ Len(earlier[<<"B1:A", "e">>]) = 2
    /\ earlier[<<"B1:A", "e">>][1].downstream_part = "B1"
    /\ earlier[<<"B1:A", "e">>][2].upstream_part = "B1"

\* the part types of the parts on a chain
TypesOn(chain) ==
    { TypeOf(c.upstream_part) : c \in Elems(chain) } \cup { TypeOf(c.downstream_part) : c \in Elems(chain) }

\* the part types observed in all the chains of the returned table
Observed == UNION { TypesOn(StoredChain(kp)) : kp \in StoredKeys }

\* the first epoch in checking order whose path holds every type of T ("" when
\* there is none, or nothing was observed)
InferredEpoch(T) ==
    LET holding == { i \in 1..Len(test_checking_order) :
                       T \subseteq Elems(full_connection_path[test_checking_order[i]]) }
    IN  IF T = {} \/ holding = {} THEN ""
        ELSE test_checking_order[CHOOSE i \in holding : \A j \in holding : i <= j]

\* `columns` is the types of T in the order of the path of epoch x, followed or
\* not by the two timing columns; it is empty when there is no epoch
IsColumnSet(columns, T, x) ==
    IF x = "" THEN columns = << >> \/ columns = <<"start", "stop">>
    ELSE LET path == full_connection_path[x]
             n == Cardinality(T)
             types == IF Len(columns) >= 2 /\ SubSeq(columns, Len(columns) - 1, Len(columns)) = <<"start", "stop">>
                      THEN SubSeq(columns, 1, Len(columns) - 2) ELSE columns
         IN  /\ Len(types) = n
             /\ Elems(types) = T
             /\ \A i, j \in 1..n : i < j => PositionIn(x, types[i]) < PositionIn(x, types[j])

NoEpochObserved ==
    /\ Returned
    /\ Observed # {}
    /\ hookup_dict.parts_epoch.epoch = ""

\* the epochs, in the fixed order, whose port definitions hold part type t
EpochsHolding(t) ==
    { i \in 1..4 : t \in DOMAIN port_def[<<"parts_hera", "parts_rfi", "parts_paper", "parts_test">>[i]] }

FoundEpoch == sysdef_call.op = "find_hookup_type"

\* C13: with no epoch forced the lookup of a part type returns the first epoch
\* in the order parts_hera, parts_rfi, parts_paper, parts_test whose port
\* definitions hold the part type, and fails when none holds it; a forced epoch
\* name that is no defined epoch fails too.
C13_FirstEpochInFixedOrderOrError ==
    FoundEpoch =>
       /\ ( sysdef_call.hookup_type = "" /\ EpochsHolding(sysdef_call.part_type) # {} ) =>
             /\ sysdef_call.raised = ""
             /\ sysdef_call.epoch =
                  <<"parts_hera", "parts_rfi", "parts_paper", "parts_test">>
                    [CHOOSE i \in EpochsHolding(sysdef_call.part_type) :
                        \A j \in EpochsHolding(sysdef_call.part_type) : i <= j]
       /\ ( sysdef_call.hookup_type = "" /\ EpochsHolding(sysdef_call.part_type) = {} ) =>
             sysdef_call.raised = "ValueError"
       /\ ( sysdef_call.hookup_type # "" /\ sysdef_call.hookup_type \notin DOMAIN port_def ) =>
             sysdef_call.raised = "ValueError"
       /\ ( sysdef_call.hookup_type \in DOMAIN port_def ) =>
             sysdef_call.raised = "" /\ sysdef_call.epoch = sysdef_call.hookup_type

\* a part type that parts_rfi and no earlier epoch holds was looked up
C13_Witness ==
    /\ FoundEpoch
    /\ sysdef_call.hookup_type = ""
    /\ sysdef_call.part_type = "temp-cable"
    /\ sysdef_call.epoch = "parts_rfi"

\* the part of a stored key hpn:rev, and whether an epoch holds a part's type
PartOf(k) == SubSeq(k, 1, Len(k) - 2)
Registered(hpn) == \E x \in Elems(test_checking_order) : TypeOf(hpn) \in DOMAIN all_port_def[x]

\* every part on the chains of seed k is of a registered type
ChainsRegistered(k) ==
    \A pkey \in DOMAIN hookup_dict.hookup[k] :
       \A t \in TypesOn(hookup_dict.hookup[k][pkey]) :
          \E x \in Elems(test_checking_order) : t \in DOMAIN all_port_def[x]

\* the result tells the seed k of an unregistered type apart from the others:
\* they keep their timing and flags
ReportedOnItsOwn(k) ==
    \A k2 \in DOMAIN hookup_dict.hookup :
       ( k2 # k /\ Registered(PartOf(k2)) /\ ChainsRegistered(k2)
            /\ \E pkey \in DOMAIN hookup_dict.hookup[k2] : hookup_dict.hookup[k2][pkey] # << >> ) =>
          /\ k2 \in DOMAIN hookup_dict.timing
          /\ k2 \in DOMAIN hookup_dict.fully_connected

\* C14: a seed of a batch whose part type no epoch holds does not end the query;
\* the chains of the other seeds are returned, and the chains of that seed are
\* empty or the seed is reported on its own.
C14_UnregisteredSeedIsSetApart ==
    Returned =>
       \A k \in DOMAIN hookup_dict.hookup :
          ~Registered(PartOf(k)) =>
             \/ \A pkey \in DOMAIN hookup_dict.hookup[k] : hookup_dict.hookup[k][pkey] = << >>
             \/ ReportedOnItsOwn(k)

\* the epochs of the topology definition whose canonical path holds part type t
EpochsWith(t) == { x \in DOMAIN port_def : In(t, full_connection_path[x]) }
PartTypes == UNION { DOMAIN port_def[x] : x \in DOMAIN port_def }

\* C15 as stated: every part type is on the canonical path of exactly one epoch
\* (said of every part type of the topology definition an epoch is looked up for).
C15_OneEpochPerPartType ==
    \A t \in PartTypes :
       sysdef_call.part_type = t => Cardinality(EpochsWith(t)) = 1

\* C15: every part type of an epoch is at exactly one position of that epoch's
\* canonical path and the path holds nothing else; a part type may be on the
\* paths of several epochs, and its epoch is made unambiguous by the lookup,
\* which gives the one epoch first in the checking order among those holding it.
C15_OnePositionPerEpochFirstEpochWins ==
    /\ \A x \in DOMAIN port_def :
          /\ Len(full_connection_path[x]) = Cardinality(DOMAIN port_def[x])
          /\ \A t \in DOMAIN port_def[x] :
                Cardinality({ i \in 1..Len(full_connection_path[x]) :
                                 full_connection_path[x][i] = t }) = 1
    /\ \A t \in PartTypes : EpochsWith(t) # {}
    /\ ( FoundEpoch /\ sysdef_call.hookup_type = "" /\ sysdef_call.part_type \in PartTypes ) =>
          /\ sysdef_call.epoch \in EpochsWith(sysdef_call.part_type)
          /\ \A i \in 1..Len(checking_order) :
                ( checking_order[i] \in EpochsWith(sysdef_call.part_type)
                    /\ checking_order[i] # sysdef_call.epoch ) =>
                   \E j \in 1..(i - 1) : checking_order[j] = sysdef_call.epoch

\* the epoch of a part type on the paths of three epochs was looked up
C15_Witness ==
    /\ FoundEpoch
    /\ sysdef_call.hookup_type = ""
    /\ sysdef_call.part_type = "feed"
    /\ EpochsWith("feed") = {"parts_hera", "parts_rfi", "parts_paper"}
    /\ sysdef_call.epoch = "parts_hera"

\* Vocabulary of the cache properties: a call of get_hookup has been made, has
\* returned; what it found when it was made.
Asked == get_hookup_call.at # ""
Answered == get_hookup_call.at = "return"
Found == get_hookup_call.seen
ToleranceWindow == 300

\* the as-of date of the file and the as-of date of the asking object are less
\* than the tolerance window apart
WithinTolerance ==
    /\ Found.at_date - at_date < ToleranceWindow
    /\ at_date - Found.at_date < ToleranceWindow

\* the staleness check fails on a file that is there: the last update is later
\* than the write of the file, or the as-of dates are neither both later than the
\* last update nor within the tolerance window
StalenessCheckFails ==
    \/ Found.st_mtime < Found.cm_hash_time
    \/ /\ ~(Found.at_date > Found.cm_hash_time /\ at_date > Found.cm_hash_time)
       /\ ~WithinTolerance

\* a part name matches a requested scope
Matches(hpn, hpn_list, exact_match) ==
    \E i \in 1..Len(hpn_list) :
       IF exact_match THEN lower(hpn) = lower(hpn_list[i])
       ELSE /\ Len(hpn_list[i]) <= Len(hpn)
            /\ lower(SubSeq(hpn, 1, Len(hpn_list[i]))) = lower(hpn_list[i])

\* the file is as the call found it
FileUntouched ==
    /\ cache_file.exists = Found.exists
    /\ cache_file.st_mtime = Found.st_mtime
    /\ cache_file.at_date = Found.at_date

C17_LaterUpdateAndDistantDateRecompute ==
    ( /\ Asked
      /\ Found.exists
      /\ Found.written_under < Found.cm_hash_time
      /\ Found.st_mtime < Found.cm_hash_time
      /\ ( Found.at_date - at_date > ToleranceWindow \/ at_date - Found.at_date > ToleranceWindow ) ) =>
       /\ get_hookup_call.recomputed
       /\ Answered => /\ get_hookup_call.wrote
                      /\ cached_hookup_dict = hookup_dict
                      /\ cache_file.at_date = at_date

\* the call was not forced, the file was written at 60 under the update of 60,
\* the last update is of 500, and the as-of dates are 900 apart
C17_Witness ==
    /\ Answered
    /\ ~get_hookup_call.force_new
    /\ Found.exists
    /\ Found.written_under = 60
    /\ Found.st_mtime = 60
    /\ Found.cm_hash_time = 500
    /\ Found.at_date = 100
    /\ at_date = 1000
    /\ get_hookup_call.recomputed
    /\ get_hookup_call.wrote

\* the case of C18: the last update is later than the one the file was written
\* under, the as-of dates are within the tolerance window and both before the
\* last update, and the call is not forced
LaterUpdateNearDates ==
    /\ Asked
    /\ ~get_hookup_call.force_new
    /\ Found.exists
    /\ Found.written_under < Found.cm_hash_time
    /\ WithinTolerance
    /\ Found.at_date < Found.cm_hash_time
    /\ at_date < Found.cm_hash_time

\* C18 as stated: in that case get_hookup returns the cached table without
\* recomputation.
C18_NearDatesServedFromCache ==
    LaterUpdateNearDates =>
       /\ ~get_hookup_call.recomputed
       /\ Answered => ~get_hookup_call.wrote /\ FileUntouched

\* C18: in that case get_hookup returns the cached table without recomputation
\* if the file was written no earlier than the last update, and recomputes if
\* the last update is later than the write of the file.
C18_NearDatesServedIfFileNotOlder ==
    LaterUpdateNearDates =>
       /\ get_hookup_call.recomputed <=> ( Found.st_mtime < Found.cm_hash_time )
       /\ ( Answered /\ ~get_hookup_call.recomputed ) => ~get_hookup_call.wrote /\ FileUntouched
       /\ ( Answered /\ get_hookup_call.recomputed ) =>
             get_hookup_call.wrote /\ cached_hookup_dict = hookup_dict

\* as-of dates 100 and 101, both before the update of 500 that came after the
\* file was written at 60: the table was recomputed
C18_Witness ==
    /\ LaterUpdateNearDates
    /\ Answered
    /\ Found.st_mtime = 60
    /\ Found.cm_hash_time = 500
    /\ Found.at_date = 100
    /\ at_date = 101
    /\ get_hookup_call.recomputed

\* the connections of the table a call returned
ReturnedConns ==
    UNION { Elems(get_hookup_call.returned.hookup[k][pkey]) :
              k \in DOMAIN get_hookup_call.returned.hookup, pkey \in Elems(both_pols) }

\* C19: every connection of a table get_hookup serves from the cache without
\* recomputation is active at the as-of date of the Hookup object that asked,
\* also when the cached table was computed for another as-of date.
C19_ServedConnectionsActiveAtAsOf ==
    ( Answered /\ ~get_hookup_call.recomputed /\ get_hookup_call.raised = "" ) =>
       \A k \in DOMAIN get_hookup_call.returned.hookup :
          \A pkey \in DOMAIN get_hookup_call.returned.hookup[k] :
             \A conn \in Elems(get_hookup_call.returned.hookup[k][pkey]) :
                ActiveAt(conn, at_date)

\* C20: a cached table is never patched.  The table of an object changes only
\* when a recomputation puts the whole new table in its place and in the cache
\* file, when an object without a table reads the whole table of the file, or
\* with the object itself; a call with a scope list, with or without
\* show_levels, leaves the table as it is.
C20_CachedTableOnlyReplacedWhole ==
    [][ cached_hookup_dict' # cached_hookup_dict =>
           \/ /\ get_hookup_call'.recomputed
              /\ get_hookup_call'.wrote
              /\ cached_hookup_dict' = hookup_dict
              /\ cache_file'.hookup_dict = hookup_dict
              /\ cache_file'.st_mtime = now'
           \/ /\ cached_hookup_dict = NoDict
              /\ ~get_hookup_call'.recomputed
              /\ cached_hookup_dict' = cache_file.hookup_dict
              /\ cache_file' = cache_file
           \/ /\ cached_hookup_dict' = NoDict
              /\ get_hookup_call' = NoGet ]_vars

\* a call with show_levels was answered from the table the object held: the
\* table returned has the level column, the cached table has not
C20_Witness ==
    /\ Answered
    /\ ~get_hookup_call.recomputed
    /\ Found.cached
    /\ get_hookup_call.show_levels
    /\ get_hookup_call.raised = ""
    /\ "list" \in DOMAIN get_hookup_call.hpn_list
    /\ In("level", get_hookup_call.returned.columns)
    /\ ~In("level", cached_hookup_dict.columns)
    /\ cached_hookup_dict.columns # << >>

\* C21: with several processes writing and reading the cache file, a reader
\* never loads an incomplete snapshot or one whose four items come from
\* different writes.
C21_ReaderLoadsOneWholeWrite ==
    \A r \in cache_readers :
       /\ handle[r].at # "error"
       /\ \A i \in 1..Len(handle[r].loaded), j \in 1..Len(handle[r].loaded) :
             handle[r].loaded[i].by = handle[r].loaded[j].by


\* C22: when two queries for parts of different epochs interleave their setup
\* and next_connection calls, every next_connection call works as if its own
\* query ran alone: the epoch and the polarization indices it reads are those
\* its own setup left (the result depends on the arguments and on these two
\* only), and it does not fail on a part type its own epoch holds.
C22_NextConnectionUsesOwnSetup ==
    \A q \in DOMAIN query_of :
       \A o \in DOMAIN query_of :
          ( /\ query_of[q].at = "called"
            /\ query_of[o].at # "new"
            /\ query_of[o].own.this_hookup_type # query_of[q].own.this_hookup_type )
          => /\ query_of[q].used = query_of[q].own
             /\ query_of[q].raised = ""


\* Vocabulary of the revisions: window a starts strictly before window b ends,
\* a null end being later than every time; the two windows overlap.
StartsBeforeEnd(a, b) == b[2] = None \/ a[1] < b[2]
Overlap(a, b) == StartsBeforeEnd(a, b) /\ StartsBeforeEnd(b, a)
WindowOf(r) == << r.started, r.ended >>
\* the revision of the part with identifier n
RevisionNamed(n) ==
    Namespace(part_revisions[CHOOSE i \in 1..Len(part_revisions) : part_revisions[i].rev = n])
RevisionNames == { part_revisions[i].rev : i \in 1..Len(part_revisions) }
\* the places of the returned list of pairs that hold the revisions x and y
ListedAt(x, y) ==
    { k \in 1..Len(rev_call.returned) :
        { rev_call.returned[k][1].rev, rev_call.returned[k][2].rev } = { x, y } }
\* the revisions of the part active at time t
ActiveRevisions(t) ==
    { n \in RevisionNames : LET r == RevisionNamed(n)
                            IN  r.started <= t /\ (r.ended = None \/ r.ended >= t) }
\* the list names the revisions of set S, each once, in the order of the identifiers
InIdentifierOrder(list, S) ==
    /\ { list[k].rev : k \in 1..Len(list) } = S
    /\ Len(list) = Cardinality(S)
    /\ \A k \in 1..Len(list) : list[k] = RevisionNamed(list[k].rev)
    /\ \A k, l \in 1..Len(list) :
          k < l => \E a, b \in 1..Len(rev_order) :
                      a < b /\ rev_order[a] = list[k].rev /\ rev_order[b] = list[l].rev

\* C23: check_for_overlap is true exactly when each window starts strictly
\* before the other ends (a null stop later than every time), whatever the
\* order of the two windows: [100, 200] and [150, 300] overlap, [100, 200] and
\* [200, 300] do not.  check_part_for_overlapping_revisions of cm_health returns
\* every unordered pair of revisions with overlapping windows once, no other
\* pair, and nothing for a part with one revision.
C23_OverlapIsStrictAndEveryPairOnce ==
    /\ rev_call.op = "check_for_overlap" =>
          LET a == rev_call.interval[1]
              b == rev_call.interval[2]
          IN  /\ rev_call.truth <=> Overlap(a, b)
              /\ rev_call.truth <=> check_for_overlap(<< b, a >>)
              /\ (a = << 100, 200 >> /\ b = << 150, 300 >>) => rev_call.truth
              /\ (a = << 100, 200 >> /\ b = << 200, 300 >>) => ~rev_call.truth
    /\ rev_call.op = "cm_health" =>
          /\ rev_call.raised = ""
          /\ \A x, y \in RevisionNames :
                x # y => Cardinality(ListedAt(x, y)) =
                            IF Overlap(WindowOf(RevisionNamed(x)), WindowOf(RevisionNamed(y)))
                            THEN 1 ELSE 0
          /\ \A k \in 1..Len(rev_call.returned) :
                /\ rev_call.returned[k][1].rev # rev_call.returned[k][2].rev
                /\ \A e \in 1..2 :
                      /\ rev_call.returned[k][e].rev \in RevisionNames
                      /\ rev_call.returned[k][e] = RevisionNamed(rev_call.returned[k][e].rev)
          /\ Len(part_revisions) = 1 => rev_call.returned = << >>

\* the health check of a part with the windows [100, 200], [150, 300] and an
\* open one has listed two pairs or more
C23_Witness ==
    /\ rev_call.op = "cm_health"
    /\ Len(rev_call.returned) >= 2
    /\ \E x, y, z \in RevisionNames :
          /\ WindowOf(RevisionNamed(x)) = << 100, 200 >>
          /\ WindowOf(RevisionNamed(y)) = << 200, 300 >>
          /\ RevisionNamed(z).ended = None
          /\ ListedAt(x, y) = {}
          /\ ListedAt(y, z) # {}

\* C24: check_part_for_overlapping_revisions of cm_revisions does not fail and
\* lists a pair of revisions exactly when the one that starts later starts
\* before the one that starts earlier has ended (a null end: not ended); no
\* pair with disjoint windows is listed.
C24_RevisionsCheckListsOverlappingPairs ==
    rev_call.op = "cm_revisions" =>
       /\ rev_call.raised = ""
       /\ \A x, y \in RevisionNames :
             x # y =>
                LET rx == RevisionNamed(x)
                    ry == RevisionNamed(y)
                    early == IF rx.started <= ry.started THEN rx ELSE ry
                    late == IF rx.started <= ry.started THEN ry ELSE rx
                IN  ListedAt(x, y) # {} <=> (early.ended = None \/ late.started < early.ended)

\* C25 as stated: the LAST revision is a single revision, the one with a null
\* stop date if there is one, otherwise the one with the latest stop date; it
\* is empty for a part with no revisions.
C25_LastIsSingleRevision ==
    (rev_call.op = "get_revisions_of_type" /\ upper(rev_call.rev_type) = "LAST") =>
       /\ rev_call.raised = ""
       /\ IF part_revisions = << >> THEN rev_call.returned = << >>
          ELSE /\ Len(rev_call.returned) = 1
               /\ rev_call.returned[1].rev \in RevisionNames
               /\ rev_call.returned[1] = RevisionNamed(rev_call.returned[1].rev)
               /\ \/ rev_call.returned[1].ended = None
                  \/ \A n \in RevisionNames :
                        /\ RevisionNamed(n).ended # None
                        /\ RevisionNamed(n).ended <= rev_call.returned[1].ended

\* C25: the LAST query returns every revision with a null stop date, each
\* once, if there is one (with a warning if there are several), otherwise the
\* single revision with the latest stop date; it is empty for a part with no
\* revisions.
C25_LastIsEveryOpenRevisionOrLatestStop ==
    (rev_call.op = "get_revisions_of_type" /\ upper(rev_call.rev_type) = "LAST") =>
       LET open == { n \in RevisionNames : RevisionNamed(n).ended = None }
       IN  /\ rev_call.raised = ""
           /\ \A k \in 1..Len(rev_call.returned) :
                 /\ rev_call.returned[k].rev \in RevisionNames
                 /\ rev_call.returned[k] = RevisionNamed(rev_call.returned[k].rev)
           /\ IF part_revisions = << >> THEN rev_call.returned = << >>
              ELSE IF open # {}
              THEN /\ { rev_call.returned[k].rev : k \in 1..Len(rev_call.returned) } = open
                   /\ Len(rev_call.returned) = Cardinality(open)
                   /\ rev_call.warned <=> Cardinality(open) > 1
              ELSE /\ Len(rev_call.returned) = 1
                   /\ \A n \in RevisionNames :
                         RevisionNamed(n).ended <= rev_call.returned[1].ended

\* the LAST query of a part with two open revisions and a closed one
C25_Witness ==
    /\ rev_call.op = "get_revisions_of_type"
    /\ rev_call.rev_type = "LAST"
    /\ Len(rev_call.returned) = 2
    /\ Len(part_revisions) = 3

\* C26: the ACTIVE query at an as-of date returns every revision active at
\* that date in the order of the identifiers; with more than one active
\* revision it warns, returns them all and does not fail; for a part with no
\* revisions every revision type returns an empty list.
C26_ActiveReturnsAllAndWarns ==
    rev_call.op = "get_revisions_of_type" =>
       /\ (upper(rev_call.rev_type) = "ACTIVE" /\ rev_call.at_date # None) =>
             /\ rev_call.raised = ""
             /\ InIdentifierOrder(rev_call.returned, ActiveRevisions(rev_call.at_date))
             /\ Cardinality(ActiveRevisions(rev_call.at_date)) > 1 => rev_call.warned
       /\ (part_revisions = << >>
             /\ (upper(rev_call.rev_type) = "ACTIVE" => rev_call.at_date # None)) =>
             /\ rev_call.raised = ""
             /\ rev_call.returned = << >>


\* C27: with several Hookup objects over one cache file, a table that
\* get_hookup returns without recomputation was computed no earlier than the
\* latest update of the tables, also when another object has rewritten the
\* cache file since that update.  (The update is the last one before the call.)
C27_ServedTableNotOlderThanLastUpdate ==
    ( /\ running # ""
      /\ get_hookup_call.at = "return"
      /\ ~get_hookup_call.recomputed
      /\ get_hookup_call.raised = "" )
    => held_since >= get_hookup_call.seen.cm_hash_time


\* C28: a chain whose fully-connected flag is true spans the whole path of the
\* epoch: the upstream part of its first connection is of the first part type
\* of the path and the downstream part of its last connection, which
\* add_correlator_levels takes as the correlator input, is of the last.
C28_FullyConnectedChainSpansPath ==
    Returned =>
       \A kp \in StoredKeys :
          FlagOf(kp) =>
             LET chain == StoredChain(kp)
                 path == hookup_dict.parts_epoch.path
             IN  /\ chain # << >>
                 /\ TypeOf(chain[1].upstream_part) = path[1]
                 /\ TypeOf(chain[Len(chain)].downstream_part) = path[Len(path)]

\* the parts a chain of connections runs through
PartsOfChain(chain) ==
    { chain[i].upstream_part : i \in 1..Len(chain) } \cup { chain[i].downstream_part : i \in 1..Len(chain) }

\* the entry the last call of a method of a HookupEntry was made on
CalledEntry == entries[entry_call.key]

\* C29: get_part_in_hookup_from_type(t), called on an entry whose columns were
\* derived from the part types of each port's chain, returns for every port
\* whose columns hold t the name of the part of type t in that port's chain,
\* be it the first, an inner or the last part, and None for every port whose
\* columns do not hold t.
C29_PartOfTypeIsFoundInEachPort ==
    entry_call.op = "get_part_in_hookup_from_type" =>
       /\ entry_call.raised = ""
       /\ DOMAIN entry_call.returned = DOMAIN CalledEntry.columns
       /\ \A port \in DOMAIN CalledEntry.columns :
             IF In(entry_call.part_type, CalledEntry.columns[port])
             THEN /\ entry_call.returned[port] \in PartsOfChain(CalledEntry.hookup[port])
                  /\ TypeOf(entry_call.returned[port]) = entry_call.part_type
             ELSE entry_call.returned[port] = "None"

\* Two connections agree in every column of the table.
SameConnection(a, b) ==
    /\ DOMAIN a = DOMAIN b
    /\ \A column \in DOMAIN a : a[column] = b[column]

\* Two lists hold the same connections in the same order.
SameConnectionList(a, b) ==
    /\ Len(a) = Len(b)
    /\ \A i \in 1..Len(a) : SameConnection(a[i], b[i])

\* The entry made from a dict agrees with the entry the dict was made of.
SameEntry(made, self) ==
    /\ made.entry_key = self.entry_key
    /\ DOMAIN made.hookup = DOMAIN self.hookup
    /\ \A port \in DOMAIN self.hookup : SameConnectionList(made.hookup[port], self.hookup[port])
    /\ made.fully_connected = self.fully_connected
    /\ made.hookup_type = self.hookup_type
    /\ made.columns = self.columns
    /\ made.timing = self.timing

=============================================================================
